---------------------------- MODULE Spec2Model ----------------------------
(***************************************************************************)
(* Model of the marine central-cooling controller                          *)
(* (CoolingSystemController, src/new_AI_UI_0314.py).                       *)
(*                                                                         *)
(* Numbers: the program computes with Python floats.  The model computes   *)
(* with exact rationals <<n, d>> (d > 0, gcd(n, d) = 1), so every          *)
(* comparison and every clamp of the code is decided on the exact value;   *)
(* floating-point rounding is not modelled.                                *)
(***************************************************************************)
EXTENDS Integers, Sequences, FiniteSets, TLC

VARIABLES ctrl, now, runs, last, pre, io, ui, thr

vars == <<ctrl, now, runs, last, pre, io, ui, thr>>

---------------------------------------------------------------------------
(* Exact rational arithmetic standing for the float operators of the code *)

Abs(x) == IF x < 0 THEN -x ELSE x

RECURSIVE GCD(_, _)
GCD(a, b) == IF b = 0 THEN a ELSE GCD(b, a % b)

(* the rational n/d in lowest terms with a positive denominator *)
Frac(n, d) ==
    LET g == GCD(Abs(n), Abs(d))
        s == IF d < 0 THEN -1 ELSE 1
    IN  <<(s * n) \div g, (s * d) \div g>>

R(n) == <<n, 1>>

RNeg(a) == <<-a[1], a[2]>>

RAdd(a, b) ==
    LET g == GCD(a[2], b[2])
    IN  Frac(a[1] * (b[2] \div g) + b[1] * (a[2] \div g), (a[2] \div g) * b[2])

RSub(a, b) == RAdd(a, RNeg(b))

(* cross-cancelling product: no intermediate exceeds the reduced result *)
RMul(a, b) ==
    LET g1 == GCD(Abs(a[1]), b[2])
        g2 == GCD(Abs(b[1]), a[2])
    IN  <<(a[1] \div g1) * (b[1] \div g2), (a[2] \div g2) * (b[2] \div g1)>>

RInv(a) == IF a[1] > 0 THEN <<a[2], a[1]>> ELSE <<-a[2], -a[1]>>

RDiv(a, b) == RMul(a, RInv(b))

(* sign of a/b - c/d for b, d > 0, by comparing integer parts and then the  *)
(* reciprocals of the fractional parts (no products are formed)            *)
RECURSIVE Cmp(_, _, _, _)
Cmp(a, b, c, d) ==
    LET qa == a \div b
        qc == c \div d
        ra == a % b
        rc == c % d
    IN  IF qa < qc THEN -1
        ELSE IF qa > qc THEN 1
        ELSE IF ra = 0 /\ rc = 0 THEN 0
        ELSE IF ra = 0 THEN -1
        ELSE IF rc = 0 THEN 1
        ELSE Cmp(d, rc, b, ra)

RLt(a, b) == Cmp(a[1], a[2], b[1], b[2]) < 0
RLe(a, b) == Cmp(a[1], a[2], b[1], b[2]) <= 0
RGt(a, b) == RLt(b, a)
RGe(a, b) == RLe(b, a)

RMin(a, b) == IF RLe(a, b) THEN a ELSE b
RMax(a, b) == IF RGe(a, b) THEN a ELSE b

(* abs(a - b) < e, decided as a < b + e and b < a + e *)
RAbsDiffLt(a, b, e) == RLt(a, RAdd(b, e)) /\ RLt(b, RAdd(a, e))

---------------------------------------------------------------------------
(* Attribute values of the controller object *)

(* Python None as stored in t5_direction / last_adjustment *)
None == "None"

(* an attribute that has not been created yet (hasattr is false) *)
Unset == "unset"

(* history cap of update_system *)
max_data_points == 1000

(* pass cap of the T2/T5 refinement loop: range(3) *)
refine_passes == 3

(* CoolingSystemController.__init__, attribute defaults; m_FW and m_SW are  *)
(* overwritten by the update_flow_rates() call that ends the constructor.   *)
(* passes, solve_m_FW, solve_m_SW and sw_held are no attributes: they       *)
(* record the passes the last refinement loop made, the flows the last      *)
(* solve read, and whether the last sea-water adjustment took a hold branch *)
InitAttrs ==
    [ T1 |-> R(25), T2 |-> R(30), T4 |-> R(36), T5 |-> R(32),
      DP1 |-> Frac(3, 2),
      fw_pump_freq |-> R(45), sw_pump_freq |-> R(60),
      fw_pump_count |-> 2, sw_pump_count |-> 2,
      m_FW |-> R(0), m_SW |-> R(0),
      heat_exchanger_efficiency |-> Frac(3, 4),
      engine_load |-> R(75),
      alarm_active |-> FALSE, alarm_message |-> "",
      simulation_mode |-> TRUE, user_input_mode |-> FALSE,
      running |-> FALSE,
      has_sw_base_freq |-> FALSE, prev_t5 |-> Unset,
      t5_direction |-> Unset, last_adjustment |-> Unset,
      last_update_time |-> 0, operating_hours |-> R(0),
      time_data |-> <<>>, engine_load_data |-> <<>>, data_log |-> <<>>,
      passes |-> 0, solve_m_FW |-> Unset, solve_m_SW |-> Unset,
      sw_held |-> FALSE ]

---------------------------------------------------------------------------
(* FlowModel *)

(* flows counted from the lowest frequency of each pump law, 40 Hz fresh    *)
(* water and 35 Hz sea water, instead of from standstill                    *)
update_flow_rates_above_minimum(c) ==
    [c EXCEPT
      !.m_FW = RMul(RMul(R(1290), RDiv(RSub(c.fw_pump_freq, R(40)), R(20))),
                    R(c.fw_pump_count)),
      !.m_SW = RMul(RMul(R(1500), RDiv(RSub(c.sw_pump_freq, R(35)), R(25))),
                    R(c.sw_pump_count))]

update_flow_rates(c) ==
    LET base_fw_flow == R(1290)
        base_sw_flow == R(1500)
    IN  [c EXCEPT
          !.m_FW = RMul(RMul(base_fw_flow, RDiv(c.fw_pump_freq, R(60))),
                        R(c.fw_pump_count)),
          !.m_SW = RMul(RMul(base_sw_flow, RDiv(c.sw_pump_freq, R(60))),
                        R(c.sw_pump_count))]

---------------------------------------------------------------------------
(* ThermalStateSolver *)

cp_fw == 4200
cp_sw == 4000
rho_fw == 1000
rho_sw == 1025
epsilon == Frac(3, 4)

(* C = m * rho * cp / 3600; the constant factor rho*cp/3600 is reduced      *)
(* first, which leaves the exact value unchanged                           *)
C_fw(c) == RMul(c.m_FW, RDiv(R(rho_fw * cp_fw), R(3600)))
C_sw(c) == RMul(c.m_SW, RDiv(R(rho_sw * cp_sw), R(3600)))

(* lines 376-392: T5 before the physical clamps, from the capacity rates *)
t5_raw(c, cfw, csw) ==
    IF cfw[1] <= 0 \/ csw[1] <= 0
    THEN c.T4
    ELSE IF RMin(cfw, csw) = cfw
         THEN RSub(c.T4, RMul(epsilon, RSub(c.T4, c.T1)))
         ELSE RSub(c.T4, RMul(RMul(epsilon, RDiv(csw, cfw)),
                              RSub(c.T4, c.T1)))

(* lines 394-399: T5 = min(T4, T5), then T5 = max(T1, T5) *)
t5_clamped(c, t5) == RMax(c.T1, RMin(c.T4, t5))

(* lines 412-416: T2 cannot exceed T4 *)
t2_capped(c, original_t2) ==
    IF RGt(original_t2, c.T4) THEN RMin(c.T4, original_t2)
    ELSE original_t2

(* the energy balance with the sign of the heat term slipped *)
t2_balance_minus(c, cfw, csw, t5) ==
    IF csw[1] > 0
    THEN t2_capped(c, RSub(c.T1, RMul(RDiv(cfw, csw), RSub(c.T4, t5))))
    ELSE c.T1

(* lines 404-419: T2 from the energy balance, capped at T4 *)
t2_balance(c, cfw, csw, t5) ==
    IF csw[1] > 0
    THEN t2_capped(c, RAdd(c.T1, RMul(RDiv(cfw, csw), RSub(c.T4, t5))))
    ELSE c.T1

(* the new T5 averaged with the stored one before it is stored, as an       *)
(* under-relaxed fixed-point iteration does                                 *)
t5_store_relaxed(c, cfw, csw, t5) ==
    [c EXCEPT
       !.T5 = RDiv(RAdd(t5, c.T5), R(2)),
       !.T2 = t2_balance(c, cfw, csw, RDiv(RAdd(t5, c.T5), R(2)))]

(* lines 401-421: store T5, derive and store T2 *)
t5_store(c, cfw, csw, t5) ==
    [c EXCEPT !.T5 = t5, !.T2 = t2_balance(c, cfw, csw, t5)]

(* lines 373-421 for given capacity rates *)
t5_solve(c, cfw, csw) ==
    t5_store(c, cfw, csw, t5_clamped(c, t5_raw(c, cfw, csw)))

(* lines 373-375: the flows the capacity rates are computed from *)
solve_reads_flows(c) ==
    [c EXCEPT !.solve_m_FW = c.m_FW, !.solve_m_SW = c.m_SW]

calculate_t5(c) == t5_solve(solve_reads_flows(c), C_fw(c), C_sw(c))

(* a calculate_t2 that recomputes T2 alone and leaves the stored T5 *)
calculate_t2_keeps_t5(c) == [calculate_t5(c) EXCEPT !.T5 = c.T5]

calculate_t2(c) == calculate_t5(c)

(* the refinement loop of update_system / manual_update: at most            *)
(* refine_passes passes, early exit when both changes are below 0.01       *)
RECURSIVE refine(_, _)

(* the loop without its early exit: every pass is followed by the next *)
refine_test_no_exit(c2, old_t2, old_t5, i) == refine(c2, i + 1)

(* the convergence test that ends a pass: c2 is the state after the pass,   *)
(* old_t2 and old_t5 the values read before calculate_t2 / calculate_t5     *)
refine_test(c2, old_t2, old_t5, i) ==
    IF /\ RAbsDiffLt(c2.T2, old_t2, Frac(1, 100))
       /\ RAbsDiffLt(c2.T5, old_t5, Frac(1, 100))
    THEN [c2 EXCEPT !.passes = i + 1]
    ELSE refine(c2, i + 1)

(* one pass from the state c1 left by calculate_t2 *)
refine_pass(c1, old_t2, i) ==
    refine_test(calculate_t5(c1), old_t2, c1.T5, i)

refine(c, i) ==
    IF i >= refine_passes THEN [c EXCEPT !.passes = i]
    ELSE refine_pass(calculate_t2(c), c.T2, i)

update_heat_exchanger_efficiency(c) ==
    [c EXCEPT !.heat_exchanger_efficiency = Frac(3, 4)]

---------------------------------------------------------------------------
(* FrequencyController *)

(* lines 451-471: the fresh-water target for an inlet temperature t4 *)
(* lines 456-468: the three bands of the law for delta_t = T4 - 36 *)
fw_band(delta_t) ==
    IF RGe(delta_t, R(17)) THEN R(60)
    ELSE IF RLe(delta_t, R(0)) THEN R(40)
    ELSE RAdd(R(40), RMul(RDiv(delta_t, R(17)), R(20)))

(* the proportional law applied outside its band and without the clamp *)
fw_desired_freq_unclamped(t4) ==
    RAdd(R(40), RMul(RDiv(RSub(t4, R(36)), R(17)), R(20)))

fw_desired_freq(t4) ==
    RMax(R(40), RMin(R(60), fw_band(RSub(t4, R(36)))))

(* the target approached by at most 2 Hz per call, as the sea-water pumps   *)
(* are                                                                     *)
fw_assign_rate_limited(c, desired_freq) ==
    [c EXCEPT !.fw_pump_freq =
        RMax(RSub(@, R(2)), RMin(RAdd(@, R(2)), desired_freq))]

(* lines 473-483: the frequency is written only when it differs *)
fw_assign(c, desired_freq) ==
    IF c.fw_pump_freq # desired_freq
    THEN [c EXCEPT !.fw_pump_freq = desired_freq]
    ELSE c

adjust_fw_pump_frequency(c) == fw_assign(c, fw_desired_freq(c.T4))

(* the creation repeated on every call *)
sw_seed_every_call(c) ==
    [c EXCEPT !.has_sw_base_freq = TRUE, !.sw_pump_freq = R(60),
              !.prev_t5 = c.T5, !.t5_direction = None,
              !.last_adjustment = None]

(* lines 490-497: first-call creation of the hysteresis attributes *)
sw_seed(c) ==
    IF ~c.has_sw_base_freq
    THEN [c EXCEPT !.has_sw_base_freq = TRUE, !.sw_pump_freq = R(60),
                   !.prev_t5 = c.T5, !.t5_direction = None,
                   !.last_adjustment = None]
    ELSE c

(* lines 491-492: the hasattr test and the creation of sw_base_freq *)
sw_create_base_freq(c) == [c EXCEPT !.has_sw_base_freq = TRUE]

(* lines 493-496: the creation of the other hysteresis attributes *)
sw_create_rest(c) ==
    [c EXCEPT !.sw_pump_freq = R(60), !.prev_t5 = c.T5,
              !.t5_direction = None, !.last_adjustment = None]

(* the attributes lines 499-551 read exist *)
sw_attributes_exist(c) ==
    /\ c.prev_t5 # Unset
    /\ c.t5_direction # Unset
    /\ c.last_adjustment # Unset

(* the direction taken from any change of T5, without the 0.05 band *)
current_direction_no_band(c) ==
    IF RGt(c.T5, c.prev_t5) THEN "up"
    ELSE IF RLt(c.T5, c.prev_t5) THEN "down"
    ELSE c.t5_direction

(* lines 499-505 *)
current_direction(c) ==
    IF RGt(c.T5, RAdd(c.prev_t5, Frac(1, 20))) THEN "up"
    ELSE IF RLt(c.T5, RSub(c.prev_t5, Frac(1, 20))) THEN "down"
    ELSE c.t5_direction

(* the reversal test passing for as long as T5 moves against the last       *)
(* adjustment                                                               *)
direction_changed_while_reversed(c) ==
    /\ c.t5_direction # None
    /\ current_direction(c) # None
    /\ c.last_adjustment # None
    /\ c.last_adjustment # current_direction(c)

(* lines 508-510 *)
direction_changed(c) ==
    /\ c.t5_direction # None
    /\ current_direction(c) # None
    /\ c.t5_direction # current_direction(c)

(* the decision without the hold on a reversal of the T5 direction *)
sw_decision_no_hold(c) ==
    IF RGt(c.T5, R(36)) THEN <<RAdd(c.sw_pump_freq, R(2)), "up">>
    ELSE IF RLt(c.T5, R(34)) THEN <<RSub(c.sw_pump_freq, R(2)), "down">>
    ELSE <<c.sw_pump_freq, c.last_adjustment>>

(* the decision with the steps taken at 34.0 and 36.0 as well *)
sw_decision_at_bounds(c) ==
    IF RGe(c.T5, R(36))
    THEN IF c.last_adjustment # "up" \/ ~direction_changed(c)
         THEN <<RAdd(c.sw_pump_freq, R(2)), "up">>
         ELSE <<c.sw_pump_freq, c.last_adjustment>>
    ELSE IF RLe(c.T5, R(34))
    THEN IF c.last_adjustment # "down" \/ ~direction_changed(c)
         THEN <<RSub(c.sw_pump_freq, R(2)), "down">>
         ELSE <<c.sw_pump_freq, c.last_adjustment>>
    ELSE <<c.sw_pump_freq, c.last_adjustment>>

(* lines 512-539: <<desired_freq, last_adjustment>> before the clamp *)
sw_decision(c) ==
    IF RGt(c.T5, R(36))
    THEN IF c.last_adjustment # "up" \/ ~direction_changed(c)
         THEN <<RAdd(c.sw_pump_freq, R(2)), "up">>
         ELSE <<c.sw_pump_freq, c.last_adjustment>>
    ELSE IF RLt(c.T5, R(34))
    THEN IF c.last_adjustment # "down" \/ ~direction_changed(c)
         THEN <<RSub(c.sw_pump_freq, R(2)), "down">>
         ELSE <<c.sw_pump_freq, c.last_adjustment>>
    ELSE <<c.sw_pump_freq, c.last_adjustment>>

(* the clamp without its lower limit *)
sw_clamp_upper_only(f) == RMin(R(60), f)

(* lines 541-542 *)
sw_clamp(f) == RMax(R(35), RMin(R(60), f))

(* lines 520-523 and 532-535: the branch that holds the frequency because  *)
(* the T5 direction reversed is the one taken                               *)
sw_hold(c) ==
    \/ /\ RGt(c.T5, R(36))
       /\ ~(c.last_adjustment # "up" \/ ~direction_changed(c))
    \/ /\ ~RGt(c.T5, R(36)) /\ RLt(c.T5, R(34))
       /\ ~(c.last_adjustment # "down" \/ ~direction_changed(c))

(* lines 541-551: clamp and store the decision d, remember T5 and its      *)
(* direction                                                               *)
sw_store(c, d) ==
    [c EXCEPT !.sw_pump_freq = sw_clamp(d[1]),
              !.last_adjustment = d[2],
              !.prev_t5 = c.T5,
              !.t5_direction = current_direction(c),
              !.sw_held = sw_hold(c)]

(* lines 499-551, on a controller whose hysteresis attributes exist *)
sw_step(c) == sw_store(c, sw_decision(c))

adjust_sw_pump_frequency(c) == sw_step(sw_seed(c))

---------------------------------------------------------------------------
(* PumpCountScheduler *)

(* the staging with the threshold test written <= instead of < *)
adjust_pump_count_by_load_le(c) ==
    IF RLe(c.engine_load, R(10))
    THEN [c EXCEPT !.fw_pump_count = 1, !.sw_pump_count = 1]
    ELSE [c EXCEPT !.fw_pump_count = 2, !.sw_pump_count = 2]

(* the staging that also returns the frequencies of a pump group whose      *)
(* count it changed to full speed                                          *)
adjust_pump_count_by_load_full_speed(c) ==
    LET staged ==
          IF RLt(c.engine_load, R(10))
          THEN [c EXCEPT !.fw_pump_count = 1, !.sw_pump_count = 1]
          ELSE [c EXCEPT !.fw_pump_count = 2, !.sw_pump_count = 2]
    IN  IF staged.fw_pump_count # c.fw_pump_count
        THEN [staged EXCEPT !.fw_pump_freq = R(60), !.sw_pump_freq = R(60)]
        ELSE staged

adjust_pump_count_by_load(c) ==
    LET staged ==
          IF RLt(c.engine_load, R(10))
          THEN [c EXCEPT
                 !.fw_pump_count = IF c.fw_pump_count > 1 THEN 1 ELSE @,
                 !.sw_pump_count = IF c.sw_pump_count > 1 THEN 1 ELSE @]
          ELSE [c EXCEPT
                 !.fw_pump_count = IF c.fw_pump_count < 2 THEN 2 ELSE @,
                 !.sw_pump_count = IF c.sw_pump_count < 2 THEN 2 ELSE @]
    IN  [staged EXCEPT
          !.fw_pump_freq = IF RGt(@, R(60)) THEN R(60) ELSE @,
          !.sw_pump_freq = IF RGt(@, R(60)) THEN R(60) ELSE @]

---------------------------------------------------------------------------
(* AlarmMonitor.  alarm_message holds the condition's label; the value the  *)
(* program formats into the text after the label is left out.              *)

MsgT5High == "F.W. outlet temperature (T5) high"
MsgT2High == "S.W. outlet temperature (T2) high"
MsgDP1Low == "S.W. inlet differential pressure (DP1) low"
MsgDP1High == "S.W. inlet differential pressure (DP1) high"

(* the evaluation without the reset of the previous alarm *)
alarm_reset_skipped(c) == c

(* lines 557-559 *)
alarm_reset(c) == [c EXCEPT !.alarm_active = FALSE, !.alarm_message = ""]

(* lines 561-566 *)
alarm_t5(c) ==
    IF RGt(c.T5, R(40))
    THEN [c EXCEPT !.alarm_active = TRUE, !.alarm_message = MsgT5High]
    ELSE c

(* lines 568-573 *)
alarm_t2(c) ==
    IF RGt(c.T2, R(49))
    THEN [c EXCEPT !.alarm_active = TRUE, !.alarm_message = MsgT2High]
    ELSE c

(* lines 575-587: if / elif *)
alarm_dp1(c) ==
    IF RLt(c.DP1, Frac(1, 2))
    THEN [c EXCEPT !.alarm_active = TRUE, !.alarm_message = MsgDP1Low]
    ELSE IF RGt(c.DP1, Frac(5, 2))
    THEN [c EXCEPT !.alarm_active = TRUE, !.alarm_message = MsgDP1High]
    ELSE c

(* the four tests applied in the opposite order *)
check_alarm_conditions_reversed(c) ==
    alarm_t5(alarm_t2(alarm_dp1(alarm_reset(c))))

check_alarm_conditions(c) == alarm_dp1(alarm_t2(alarm_t5(alarm_reset(c))))

---------------------------------------------------------------------------
(* UpdateLoop *)

(* the perturbation without the range clamps *)
simulate_temperature_changes_unclamped(c, t1_change, t4_change) ==
    [c EXCEPT
       !.T1 = RAdd(c.T1, t1_change),
       !.T4 = RAdd(c.T4, t4_change),
       !.heat_exchanger_efficiency =
           RMul(Frac(17, 20),
                RMax(Frac(3, 5),
                     RSub(R(1), RDiv(c.operating_hours, R(10000)))))]

(* T1 += t1_change, T4 += t4_change, then the range clamps; the efficiency  *)
(* written here is overwritten by update_heat_exchanger_efficiency later in *)
(* the same update_system call                                             *)
simulate_temperature_changes(c, t1_change, t4_change) ==
    LET age_factor ==
          RMax(Frac(3, 5), RSub(R(1), RDiv(c.operating_hours, R(10000))))
    IN  [c EXCEPT
          !.T1 = RMax(R(0), RMin(R(36), RAdd(c.T1, t1_change))),
          !.T4 = RMax(R(36), RMin(R(53), RAdd(c.T4, t4_change))),
          !.heat_exchanger_efficiency = RMul(Frac(17, 20), age_factor)]

(* the last n entries of a list: s[-n:] *)
Tail_n(s, n) ==
    IF Len(s) > n THEN SubSeq(s, Len(s) - n + 1, Len(s)) ELSE s

(* Of the twelve parallel series the first and the last appended are kept,  *)
(* time_data and engine_load_data (all twelve are appended and sliced by    *)
(* the same statements); a data_log entry holds its 'Time' key.             *)

(* line 674: the first append of a tick *)
log_append_time(c, current_time) ==
    [c EXCEPT !.time_data = Append(@, current_time)]

(* lines 675-685: the appends to the other series, engine_load_data last *)
log_append_rest(c) ==
    [c EXCEPT !.engine_load_data = Append(@, c.engine_load)]

(* lines 687-704 *)
log_snapshot(c, current_time) ==
    [c EXCEPT !.data_log = Append(@, [Time |-> current_time])]

(* lines 709-711 *)
log_clock(c, current_time) ==
    [c EXCEPT !.operating_hours =
                 RAdd(@, Frac(current_time - c.last_update_time, 3600)),
              !.last_update_time = current_time]

(* lines 713-727: the series are cut to their last max_data_points entries  *)
(* when time_data is longer than that; data_log is not among them          *)
log_trim(c) ==
    IF Len(c.time_data) > max_data_points
    THEN [c EXCEPT !.time_data = Tail_n(@, max_data_points),
                   !.engine_load_data = Tail_n(@, max_data_points)]
    ELSE c

(* lines 673-727 *)
log_data(c, current_time) ==
    log_trim(
      log_clock(
        log_snapshot(
          log_append_rest(log_append_time(c, current_time)),
          current_time),
        current_time))

(* update_system with the flows recomputed before the thermal solve *)
update_system_flows_first(c, current_time, t1_change, t4_change) ==
    LET s0 == IF c.simulation_mode /\ ~c.user_input_mode
              THEN simulate_temperature_changes(c, t1_change, t4_change)
              ELSE c
        s1 == update_flow_rates(s0)
        s2 == refine(s1, 0)
        s3 == update_heat_exchanger_efficiency(s2)
        s4 == adjust_fw_pump_frequency(s3)
        s5 == adjust_sw_pump_frequency(s4)
        s6 == adjust_pump_count_by_load(s5)
        s7 == check_alarm_conditions(s6)
    IN  log_data(s7, current_time)

(* update_system with the flows recomputed after the controllers and the    *)
(* scheduler have acted                                                    *)
update_system_flows_last(c, current_time, t1_change, t4_change) ==
    LET s0 == IF c.simulation_mode /\ ~c.user_input_mode
              THEN simulate_temperature_changes(c, t1_change, t4_change)
              ELSE c
        s1 == refine(s0, 0)
        s3 == update_heat_exchanger_efficiency(s1)
        s4 == adjust_fw_pump_frequency(s3)
        s5 == adjust_sw_pump_frequency(s4)
        s6 == adjust_pump_count_by_load(s5)
        s2 == update_flow_rates(s6)
        s7 == check_alarm_conditions(s2)
    IN  log_data(s7, current_time)

(* update_system with the perturbation applied in every mode *)
update_system_simulates_in_any_mode(c, current_time, t1_change, t4_change) ==
    LET s0 == simulate_temperature_changes(c, t1_change, t4_change)
        s1 == refine(s0, 0)
        s2 == update_flow_rates(s1)
        s3 == update_heat_exchanger_efficiency(s2)
        s4 == adjust_fw_pump_frequency(s3)
        s5 == adjust_sw_pump_frequency(s4)
        s6 == adjust_pump_count_by_load(s5)
        s7 == check_alarm_conditions(s6)
    IN  log_data(s7, current_time)

(* lines 636-671, shared verbatim by manual_update lines 837-865 except for *)
(* the efficiency update, which only update_system performs                *)
update_system(c, current_time, t1_change, t4_change) ==
    LET s0 == IF c.simulation_mode /\ ~c.user_input_mode
              THEN simulate_temperature_changes(c, t1_change, t4_change)
              ELSE c
        s1 == refine(s0, 0)
        s2 == update_flow_rates(s1)
        s3 == update_heat_exchanger_efficiency(s2)
        s4 == adjust_fw_pump_frequency(s3)
        s5 == adjust_sw_pump_frequency(s4)
        s6 == adjust_pump_count_by_load(s5)
        s7 == check_alarm_conditions(s6)
    IN  log_data(s7, current_time)

(* lines 832-835: T5 is pulled 2 degrees below T4 when within 0.1 of it *)
t5_init_guard(c) ==
    IF RAbsDiffLt(c.T5, c.T4, Frac(1, 10))
    THEN [c EXCEPT !.T5 = RSub(c.T4, R(2))]
    ELSE c

(* the manual pipeline followed by the history append of a tick *)
manual_pipeline_logging(c) ==
    log_data(
      check_alarm_conditions(
        adjust_pump_count_by_load(
          adjust_sw_pump_frequency(
            adjust_fw_pump_frequency(
              update_flow_rates(refine(t5_init_guard(c), 0)))))),
      c.last_update_time)

(* lines 837-868 *)
manual_pipeline(c) ==
    check_alarm_conditions(
      adjust_pump_count_by_load(
        adjust_sw_pump_frequency(
          adjust_fw_pump_frequency(
            update_flow_rates(refine(t5_init_guard(c), 0))))))

(* manual_update with the arguments cut to the ranges a simulated tick      *)
(* keeps T1 and T4 in                                                      *)
manual_update_clamped(c, t4, t1, dp1, engine_load) ==
    manual_pipeline([c EXCEPT !.T4 = RMax(R(36), RMin(R(53), t4)),
                              !.T1 = RMax(R(0), RMin(R(36), t1)),
                              !.DP1 = dp1,
                              !.engine_load = engine_load])

(* lines 826-868: the state manual_update leaves *)
manual_update(c, t4, t1, dp1, engine_load) ==
    manual_pipeline([c EXCEPT !.T4 = t4, !.T1 = t1, !.DP1 = dp1,
                              !.engine_load = engine_load])

(* line 871: the triple manual_update returns, read from the state it left *)
manual_update_return(c) == <<c.T5, c.T2, c.DP1>>

---------------------------------------------------------------------------
(* Inputs *)

(* pipeline runs (ticks and manual updates) Spec follows from construction *)
MaxRuns == 3

(* ticks HistorySpec follows: past the history cap by two *)
MaxHistoryTicks == 1002

(* argument tuples <<t4, t1, dp1, engine_load>> a caller passes to          *)
(* manual_update: T4 is not range-checked, T1 in [0,36], DP1 in [0.1,3.0],  *)
(* engine_load in [0,100]                                                  *)
ManualInputs ==
    ({R(20), R(38), R(53), R(60)} \X {R(25), R(36)} \X {Frac(3, 2)} \X {R(10)})
    \cup
    ({R(36)} \X {R(25)} \X {Frac(1, 10), Frac(1, 2), R(3)}
             \X {R(0), Frac(99, 10), R(10)})

(* a text float() raises ValueError on *)
NotANumber == <<1, 0>>

(* texts typed into the entry fields for T4, T1, DP1 and engine load *)
TypedT4 == {R(36), R(60)}
TypedT1 == {R(25), R(50), NotANumber}
TypedDP1 == {Frac(3, 2), R(5)}
TypedLoad == {R(75), R(150)}

(* user actions UiSpec follows from construction *)
MaxUiActions == 4

(* update_system calls and manual updates RaceSpec follows *)
MaxRaceTicks == 2
MaxRaceManual == 1

(* <<t4, t1>> as auto_update draws them: the generators restart from the    *)
(* selected region's start values on every call (temperate 42.0 and 15.0,   *)
(* tropical 40.0 and 28.0) and move T4 by 0.15 to 0.3 and T1 by 0.1 to 0.2  *)
RaceInputs ==
    { <<Frac(169, 4), Frac(121, 8)>>, <<Frac(161, 4), Frac(225, 8)>> }

(* ticks DriftSpec follows, and the draws of 0.05 * randn() it takes: the   *)
(* sea water warming by a quarter degree per tick from 25 to 36             *)
MaxDriftTicks == 45
DriftT1Change == {Frac(1, 4)}
DriftT4Change == {Frac(-1, 4)}

(* the inputs of LoopSpec: two operating points with T5 below 34 and two    *)
(* with T5 above 36, pressure and load held at their defaults              *)
LoopInputs ==
    { <<R(36), R(25), Frac(3, 2), R(75)>>,
      <<R(38), R(25), Frac(3, 2), R(75)>>,
      <<R(53), R(36), Frac(3, 2), R(75)>>,
      <<R(60), R(36), Frac(3, 2), R(75)>> }

(* SolverSpec: the attributes calculate_t5 reads.  The flows are the values *)
(* update_flow_rates produces at the ends of the frequency and count ranges *)
(* and at the constructor's setting, and the 0.0 the constructor assigns    *)
(* before its first update_flow_rates call                                 *)
SolverT1 == {R(0), R(25), R(36)}
SolverT4 == {R(20), R(36), R(38), R(53), R(60)}
SolverFW == {R(0), R(860), R(1935), R(2580)}
SolverSW == {R(0), R(875), R(3000)}

(* AlarmSpec: readings on both sides of, and exactly at, each threshold *)
AlarmT5 == {R(40), Frac(81, 2)}
AlarmT2 == {R(49), R(50)}
AlarmDP1 == {Frac(1, 10), Frac(1, 2), Frac(3, 2), Frac(5, 2), R(3)}

(* one draw of 0.05 * randn() *)
SimChange == {Frac(-1, 4), Frac(1, 4)}

---------------------------------------------------------------------------
(* The controller driven through its two entry points *)

(* the attributes a run is compared against afterwards *)
Snapshot(c) ==
    [ sw_pump_freq |-> c.sw_pump_freq,
      fw_pump_freq |-> c.fw_pump_freq,
      has_sw_base_freq |-> c.has_sw_base_freq,
      prev_t5 |-> c.prev_t5,
      t5_direction |-> c.t5_direction,
      last_adjustment |-> c.last_adjustment,
      fw_pump_count |-> c.fw_pump_count,
      sw_pump_count |-> c.sw_pump_count,
      engine_load |-> c.engine_load,
      alarm_active |-> c.alarm_active,
      n_time_data |-> Len(c.time_data),
      n_data_log |-> Len(c.data_log),
      m_FW |-> c.m_FW,
      m_SW |-> c.m_SW,
      T1 |-> c.T1,
      T4 |-> c.T4,
      T5 |-> c.T5,
      T2 |-> c.T2,
      sw_held |-> c.sw_held ]

(* no call of manual_update made yet *)
NoCall == [args |-> <<>>, ret |-> <<>>]

(* f"{x:.1f}" and f"{x:.2f}" read back by float(): x rounded to one and to  *)
(* two decimals (x >= 0)                                                   *)
format_1f(x) == Frac((20 * x[1] + x[2]) \div (2 * x[2]), 10)
format_2f(x) == Frac((200 * x[1] + x[2]) \div (2 * x[2]), 100)

(* the window after InputWindow.__init__: the entry fields hold the         *)
(* controller's values as setup_ui inserted them, toggle_input_fields(False)*)
(* has disabled the four fields and the run button is disabled; the         *)
(* data-entry button is enabled, auto-update is off and no auto_update      *)
(* callback is scheduled (pending counts the root.after(2000, auto_update)  *)
(* calls whose callback has not run yet)                                    *)
InputWindowInit(c) ==
    [ entries |-> << format_1f(c.T4), format_1f(c.T1), format_2f(c.DP1),
                     format_1f(c.engine_load) >>,
      fields |-> FALSE,
      dp1_field |-> FALSE,
      run_button |-> FALSE,
      input_button |-> TRUE,
      auto_update_active |-> FALSE,
      pending |-> 0 ]

(* float() accepts all four entry texts *)
entries_are_floats(e) == \A i \in 1..4 : e[i][2] # 0

(* lines 1694-1704: the range checks of run_manual_mode (T4 has none) *)
entries_in_range(e) ==
    /\ RLe(R(0), e[2]) /\ RLe(e[2], R(36))
    /\ RLe(Frac(1, 10), e[3]) /\ RLe(e[3], R(3))
    /\ RLe(R(0), e[4]) /\ RLe(e[4], R(100))

(* main() after controller_thread.start(): the worker thread is about to    *)
(* execute the first statement of run(), the main thread is in the window's *)
(* event loop with no callback running.  current_time is the worker's local *)
(* of that name; the other fields record what has happened: stop() called,  *)
(* update_system calls started after it, manual updates started, an         *)
(* exception raised in a callback of the main thread, what save_data        *)
(* returned                                                                 *)
ThreadsInit ==
    [ worker |-> "run", main |-> "mainloop", current_time |-> 0,
      stopped |-> FALSE, started_after_stop |-> 0, manual_updates |-> 0,
      raised |-> FALSE, save_data |-> "" ]

Init ==
    /\ ctrl = update_flow_rates(InitAttrs)
    /\ now = 0
    /\ runs = 0
    /\ last = "__init__"
    /\ pre = Snapshot(ctrl)
    /\ io = NoCall
    /\ ui = InputWindowInit(ctrl)
    /\ thr = ThreadsInit

(* one periodic tick in autonomous mode *)
TickSimulated ==
    /\ ctrl.simulation_mode /\ ~ctrl.user_input_mode
    /\ \E t1_change \in SimChange, t4_change \in SimChange :
         ctrl' = update_system(ctrl, now + 1, t1_change, t4_change)
    /\ now' = now + 1
    /\ last' = "update_system"
    /\ pre' = Snapshot(ctrl)
    /\ UNCHANGED <<io, ui, thr>>

(* one periodic tick with the inputs held *)
TickHeld ==
    /\ ~(ctrl.simulation_mode /\ ~ctrl.user_input_mode)
    /\ ctrl' = update_system(ctrl, now + 1, R(0), R(0))
    /\ now' = now + 1
    /\ last' = "update_system"
    /\ pre' = Snapshot(ctrl)
    /\ UNCHANGED <<io, ui, thr>>

ManualUpdate(inputs) ==
    /\ \E in \in inputs :
         /\ ctrl' = manual_update(ctrl, in[1], in[2], in[3], in[4])
         /\ io' = [args |-> in, ret |-> manual_update_return(ctrl')]
    /\ last' = "manual_update"
    /\ pre' = Snapshot(ctrl)
    /\ UNCHANGED <<now, ui, thr>>

(* toggle_user_input() without its argument, line 1526: user_input_mode is  *)
(* flipped, and the entry texts are applied when it has become true         *)
toggle_user_input_flip(c, e) ==
    IF c.user_input_mode THEN [c EXCEPT !.user_input_mode = FALSE]
    ELSE IF entries_are_floats(e)
    THEN manual_update([c EXCEPT !.user_input_mode = TRUE],
                       e[1], e[2], e[3], e[4])
    ELSE [c EXCEPT !.user_input_mode = TRUE]

(* lines 1518-1549, toggle_user_input(True): user_input_mode is set and the *)
(* entry texts, when float() accepts all four, go to manual_update as they  *)
(* are                                                                     *)
toggle_user_input_on(c, e) ==
    IF entries_are_floats(e)
    THEN manual_update([c EXCEPT !.user_input_mode = TRUE],
                       e[1], e[2], e[3], e[4])
    ELSE [c EXCEPT !.user_input_mode = TRUE]

(* InputWindow.enable_manual_input: the fields are enabled,                 *)
(* toggle_user_input(True) applies the entry fields through manual_update,  *)
(* toggle_simulation(False) follows and the run button is enabled           *)
EnableManualInput ==
    /\ ctrl' = [toggle_user_input_on(ctrl, ui.entries)
                  EXCEPT !.simulation_mode = FALSE]
    /\ IF entries_are_floats(ui.entries)
       THEN /\ io' = [args |-> ui.entries, ret |-> manual_update_return(ctrl')]
            /\ last' = "manual_update"
       ELSE /\ io' = io
            /\ last' = "enable_manual_input"
    /\ ui' = [ui EXCEPT !.fields = TRUE, !.dp1_field = TRUE,
                        !.run_button = TRUE]
    /\ pre' = Snapshot(ctrl)
    /\ UNCHANGED <<now, thr>>

(* the user types a text into one of the enabled entry fields *)
EditField ==
    /\ \/ ui.fields /\ \E v \in TypedT4 : ui' = [ui EXCEPT !.entries[1] = v]
       \/ ui.fields /\ \E v \in TypedT1 : ui' = [ui EXCEPT !.entries[2] = v]
       \/ ui.dp1_field /\ \E v \in TypedDP1 : ui' = [ui EXCEPT !.entries[3] = v]
       \/ ui.fields /\ \E v \in TypedLoad : ui' = [ui EXCEPT !.entries[4] = v]
    /\ last' = "edit"
    /\ UNCHANGED <<ctrl, now, pre, io, thr>>

(* lines 1441-1516, update_ui: what the refresh does to the controller, the *)
(* update_flow_rates call of line 1476                                      *)
update_ui(c) == update_flow_rates(c)

(* lines 1452-1460: outside user-input mode the refresh rewrites the T4, T1 *)
(* and engine-load entries e from the controller; delete and insert change  *)
(* nothing in an entry whose state is disabled                              *)
update_ui_entries(c, e, enabled) ==
    IF ~c.user_input_mode /\ enabled
    THEN <<format_1f(c.T4), format_1f(c.T1), e[3], format_1f(c.engine_load)>>
    ELSE e

(* lines 1706-1732, run_manual_mode past its checks: manual_update, then    *)
(* toggle_input_fields(False), update_ui (which calls update_flow_rates and *)
(* sets the fields by user_input_mode, the DP1 field always enabled),       *)
(* check_alarm_conditions, and the run button disabled                      *)
RunManualModeAccepted ==
    /\ entries_are_floats(ui.entries) /\ entries_in_range(ui.entries)
    /\ ctrl' = check_alarm_conditions(
                 update_ui(
                   manual_update(ctrl, ui.entries[1], ui.entries[2],
                                 ui.entries[3], ui.entries[4])))
    /\ io' = [args |-> ui.entries,
              ret |-> manual_update_return(
                        manual_update(ctrl, ui.entries[1], ui.entries[2],
                                      ui.entries[3], ui.entries[4]))]
    /\ ui' = [ui EXCEPT !.entries = update_ui_entries(ctrl', @, FALSE),
                        !.fields = ctrl.user_input_mode, !.dp1_field = TRUE,
                        !.run_button = FALSE]
    /\ last' = "manual_update"
    /\ pre' = Snapshot(ctrl)

(* lines 1684-1704 and 1737-1738: a text that is no number or a value out   *)
(* of range ends run_manual_mode with a message box                         *)
RunManualModeRejected ==
    /\ ~(entries_are_floats(ui.entries) /\ entries_in_range(ui.entries))
    /\ last' = "run_manual_mode_rejected"
    /\ pre' = Snapshot(ctrl)
    /\ UNCHANGED <<ctrl, io, ui>>

(* InputWindow.run_manual_mode, bound to the run button and to the Return   *)
(* key of the entry fields                                                  *)
RunManualMode ==
    /\ ui.run_button \/ ui.fields \/ ui.dp1_field
    /\ RunManualModeAccepted \/ RunManualModeRejected
    /\ UNCHANGED <<now, thr>>

Next ==
    /\ runs < MaxRuns
    /\ runs' = runs + 1
    /\ \/ TickSimulated
       \/ TickHeld
       \/ ManualUpdate(ManualInputs)
       \/ EnableManualInput

Spec == Init /\ [][Next]_vars

(* the control loop followed without a bound on the number of manual       *)
(* updates, over LoopInputs                                                *)
LoopNext ==
    /\ ManualUpdate(LoopInputs)
    /\ UNCHANGED runs

LoopSpec == Init /\ [][LoopNext]_vars

(* manual updates whose T4 moves T5 by less than, exactly, and more than    *)
(* the 0.05 degrees the direction logic of the sea-water law looks for      *)
DirectionInputs ==
    { <<t4, R(25), Frac(3, 2), R(75)>> :
        t4 \in {R(38), Frac(381, 10), Frac(191, 5), R(40)} }

DirectionNext ==
    /\ ManualUpdate(DirectionInputs)
    /\ UNCHANGED runs

DirectionSpec == Init /\ [][DirectionNext]_vars

(* runs PipelineSpec follows: autonomous ticks and manual updates mixed *)
MaxPipelineRuns == 4

(* manual updates that leave T4 above and below the range a tick keeps it   *)
(* in, put T5 on the upper bound of the dead zone (T4 below T1 = 36), and   *)
(* take the engine load below and back above the staging threshold          *)
PipelineInputs ==
    { <<R(60), R(36), Frac(3, 2), R(75)>>,
      <<R(20), R(36), Frac(3, 2), R(75)>>,
      <<R(38), R(25), Frac(3, 2), R(0)>>,
      <<R(38), R(25), Frac(3, 2), R(75)>> }

PipelineNext ==
    /\ runs < MaxPipelineRuns
    /\ runs' = runs + 1
    /\ \/ TickSimulated
       \/ ManualUpdate(PipelineInputs)

PipelineSpec == Init /\ [][PipelineNext]_vars

(* runs GuardSpec follows *)
MaxGuardRuns == 4

(* manual updates that leave T5 = 36 (T4 = 20 below T1 = 36) and then       *)
(* assign a T4 equal to that T5, 0.05 and exactly 0.1 above it, and 2 above *)
GuardInputs ==
    { <<R(20), R(36), Frac(3, 2), R(75)>>,
      <<R(36), R(25), Frac(3, 2), R(75)>>,
      <<Frac(721, 20), R(25), Frac(3, 2), R(75)>>,
      <<Frac(361, 10), R(25), Frac(3, 2), R(75)>>,
      <<R(38), R(25), Frac(3, 2), R(75)>> }

GuardNext ==
    /\ runs < MaxGuardRuns
    /\ runs' = runs + 1
    /\ ManualUpdate(GuardInputs)

GuardSpec == Init /\ [][GuardNext]_vars

---------------------------------------------------------------------------
(* The input window driven by its user: the data-entry button, typing into  *)
(* the fields, and the run button                                          *)

UiNext ==
    /\ runs < MaxUiActions
    /\ runs' = runs + 1
    /\ \/ EnableManualInput
       \/ EditField
       \/ RunManualMode

UiSpec == Init /\ [][UiNext]_vars

---------------------------------------------------------------------------
(* The periodic loop followed past the history cap: manual input is        *)
(* enabled once and the worker then ticks with the inputs held             *)

HistoryNext ==
    /\ now < MaxHistoryTicks
    /\ UNCHANGED runs
    /\ \/ TickHeld
       \/ ~ctrl.user_input_mode /\ EnableManualInput

HistorySpec == Init /\ [][HistoryNext]_vars

---------------------------------------------------------------------------
(* The worker thread running run() beside the main thread, which runs the   *)
(* window's callbacks and, when the event loop ends, stop() and save_data().*)
(* Nothing in the source synchronises the two; a thread is switched between *)
(* the steps below.                                                        *)

WorkerAt(pc) == thr.worker = pc /\ thr.main # "exited"

WorkerStep(c, pc) ==
    /\ ctrl' = c
    /\ thr' = [thr EXCEPT !.worker = pc]
    /\ UNCHANGED <<now, runs, last, pre, io, ui>>

(* run() called again by a supervisor after it has returned on an exception *)
Run_StartAgain ==
    /\ thr.worker \in {"run", "raised"} /\ thr.main # "exited"
    /\ WorkerStep([ctrl EXCEPT !.running = TRUE], "while")

(* line 739 *)
Run_Start ==
    /\ WorkerAt("run")
    /\ WorkerStep([ctrl EXCEPT !.running = TRUE], "while")

(* line 745 with self.running true, and line 630: update_system begins *)
Run_WhileUpTo(max_ticks) ==
    /\ WorkerAt("while")
    /\ ctrl.running
    /\ now < max_ticks
    /\ now' = now + 1
    /\ thr' = [thr EXCEPT !.worker = "simulate",
                          !.current_time = now + 1,
                          !.started_after_stop =
                              IF thr.stopped THEN @ + 1 ELSE @]
    /\ UNCHANGED <<ctrl, runs, last, pre, io, ui>>

(* line 745 with self.running false, and the finally clause *)
Run_Exit ==
    /\ WorkerAt("while")
    /\ ~ctrl.running
    /\ WorkerStep([ctrl EXCEPT !.running = FALSE], "returned")

Run_While == Run_WhileUpTo(MaxRaceTicks)

(* lines 633-634 *)
Tick_SimulateWith(t1_changes, t4_changes) ==
    /\ WorkerAt("simulate")
    /\ IF ctrl.simulation_mode /\ ~ctrl.user_input_mode
       THEN \E t1_change \in t1_changes, t4_change \in t4_changes :
              WorkerStep(simulate_temperature_changes(ctrl, t1_change,
                                                      t4_change), "solve")
       ELSE WorkerStep(ctrl, "solve")

Tick_Simulate == Tick_SimulateWith(SimChange, SimChange)

(* lines 636-657 *)
Tick_Solve ==
    /\ WorkerAt("solve")
    /\ WorkerStep(update_heat_exchanger_efficiency(
                    update_flow_rates(refine(ctrl, 0))), "fw")

(* line 660 *)
Tick_AdjustFw ==
    /\ WorkerAt("fw")
    /\ WorkerStep(adjust_fw_pump_frequency(ctrl), "sw_hasattr")

(* line 663, adjust_sw_pump_frequency lines 491-492 *)
Tick_SwHasattr ==
    /\ WorkerAt("sw_hasattr")
    /\ IF ctrl.has_sw_base_freq
       THEN WorkerStep(ctrl, "sw_law")
       ELSE WorkerStep(sw_create_base_freq(ctrl), "sw_create")

(* lines 493-496 *)
Tick_SwCreate ==
    /\ WorkerAt("sw_create")
    /\ WorkerStep(sw_create_rest(ctrl), "sw_law")

(* lines 499-551 *)
Tick_SwLaw ==
    /\ WorkerAt("sw_law")
    /\ sw_attributes_exist(ctrl)
    /\ WorkerStep(sw_step(ctrl), "count")

(* line 500 raises AttributeError; run() logs it at line 765 and leaves     *)
(* through its finally clause                                               *)
Tick_SwRaise ==
    /\ WorkerAt("sw_law")
    /\ ~sw_attributes_exist(ctrl)
    /\ WorkerStep([ctrl EXCEPT !.running = FALSE], "raised")

(* lines 666-671 *)
Tick_CountAlarm ==
    /\ WorkerAt("count")
    /\ WorkerStep(check_alarm_conditions(adjust_pump_count_by_load(ctrl)),
                  "log_time")

(* line 674 *)
Tick_LogTime ==
    /\ WorkerAt("log_time")
    /\ WorkerStep(log_append_time(ctrl, thr.current_time), "log_rest")

(* lines 675-711 *)
Tick_LogRest ==
    /\ WorkerAt("log_rest")
    /\ WorkerStep(log_clock(log_snapshot(log_append_rest(ctrl),
                                         thr.current_time),
                            thr.current_time), "log_trim")

(* lines 713-727; update_system returns to the loop of run() *)
Tick_LogTrim ==
    /\ WorkerAt("log_trim")
    /\ WorkerStep(log_trim(ctrl), "while")

Worker ==
    \/ Run_Start \/ Run_While \/ Run_Exit
    \/ Tick_Simulate \/ Tick_Solve \/ Tick_AdjustFw
    \/ Tick_SwHasattr \/ Tick_SwCreate \/ Tick_SwLaw \/ Tick_SwRaise
    \/ Tick_CountAlarm \/ Tick_LogTime \/ Tick_LogRest \/ Tick_LogTrim

MainStep(c, pc) ==
    /\ ctrl' = c
    /\ thr' = [thr EXCEPT !.main = pc]
    /\ UNCHANGED <<now, runs, last, pre, io, ui>>

(* auto_update lines 1629-1640 and manual_update lines 826-835: T1 and T4   *)
(* are drawn, DP1 and engine_load are the controller's own, and             *)
(* manual_update assigns them and applies its T5 guard                      *)
AutoUpdate_AssignUpTo(max_manual) ==
    /\ thr.main = "mainloop"
    /\ thr.manual_updates < max_manual
    /\ \E in \in RaceInputs :
         ctrl' = t5_init_guard([ctrl EXCEPT !.T4 = in[1], !.T1 = in[2],
                                           !.DP1 = ctrl.DP1,
                                           !.engine_load = ctrl.engine_load])
    /\ thr' = [thr EXCEPT !.main = "solve", !.manual_updates = @ + 1]
    /\ UNCHANGED <<now, runs, last, pre, io, ui>>

AutoUpdate_Assign == AutoUpdate_AssignUpTo(MaxRaceManual)

(* manual_update lines 837-855 *)
Manual_Solve ==
    /\ thr.main = "solve"
    /\ MainStep(update_flow_rates(refine(ctrl, 0)), "fw")

(* line 858 *)
Manual_AdjustFw ==
    /\ thr.main = "fw"
    /\ MainStep(adjust_fw_pump_frequency(ctrl), "sw_hasattr")

(* line 861, adjust_sw_pump_frequency lines 491-492 *)
Manual_SwHasattr ==
    /\ thr.main = "sw_hasattr"
    /\ IF ctrl.has_sw_base_freq
       THEN MainStep(ctrl, "sw_law")
       ELSE MainStep(sw_create_base_freq(ctrl), "sw_create")

(* lines 493-496 *)
Manual_SwCreate ==
    /\ thr.main = "sw_create"
    /\ MainStep(sw_create_rest(ctrl), "sw_law")

(* lines 499-551 *)
Manual_SwLaw ==
    /\ thr.main = "sw_law"
    /\ sw_attributes_exist(ctrl)
    /\ MainStep(sw_step(ctrl), "count")

(* line 500 raises AttributeError, which ends the callback *)
Manual_SwRaise ==
    /\ thr.main = "sw_law"
    /\ ~sw_attributes_exist(ctrl)
    /\ ctrl' = ctrl
    /\ thr' = [thr EXCEPT !.main = "mainloop", !.raised = TRUE]
    /\ UNCHANGED <<now, runs, last, pre, io, ui>>

(* manual_update lines 864-871, then auto_update lines 1650-1653:           *)
(* update_ui calls update_flow_rates, check_alarm_conditions follows        *)
Manual_CountAlarm ==
    /\ thr.main = "count"
    /\ MainStep(check_alarm_conditions(
                  update_flow_rates(
                    check_alarm_conditions(
                      adjust_pump_count_by_load(ctrl)))), "mainloop")

(* main() lines 1898-1911: the event loop ends and stop() is called *)
Main_Stop ==
    /\ thr.main = "mainloop"
    /\ ctrl' = [ctrl EXCEPT !.running = FALSE]
    /\ thr' = [thr EXCEPT !.main = "stopped", !.stopped = TRUE]
    /\ UNCHANGED <<now, runs, last, pre, io, ui>>

(* save_data lines 775-818: no rows when time_data is empty; otherwise one  *)
(* row per index of time_data read from every series, the IndexError of a   *)
(* shorter series being caught at line 816                                  *)
save_data(c) ==
    IF Len(c.time_data) = 0 THEN "nothing to save"
    ELSE IF Len(c.engine_load_data) < Len(c.time_data) THEN "failed"
    ELSE "saved"

(* main() line 1914, after which the process ends and the daemon thread     *)
(* with it                                                                  *)
Main_SaveData ==
    /\ thr.main = "stopped"
    /\ thr' = [thr EXCEPT !.main = "exited", !.save_data = save_data(ctrl)]
    /\ UNCHANGED <<ctrl, now, runs, last, pre, io, ui>>

Main ==
    \/ AutoUpdate_Assign \/ Manual_Solve \/ Manual_AdjustFw
    \/ Manual_SwHasattr \/ Manual_SwCreate \/ Manual_SwLaw
    \/ Manual_SwRaise \/ Manual_CountAlarm
    \/ Main_Stop \/ Main_SaveData

RaceNext == Worker \/ Main

RaceSpec == Init /\ [][RaceNext]_vars

(* update_system calls and manual updates StopSpec follows: the two threads *)
(* as in RaceSpec while the window is open, with room for a manual update   *)
(* after the worker has died                                                *)
MaxStopTicks == 1
MaxStopManual == 2

StopNext ==
    \/ Run_Start \/ Run_WhileUpTo(MaxStopTicks)
    \/ Tick_SimulateWith({Frac(1, 4)}, {Frac(1, 4)})
    \/ Tick_Solve \/ Tick_AdjustFw
    \/ Tick_SwHasattr \/ Tick_SwCreate \/ Tick_SwLaw \/ Tick_SwRaise
    \/ Tick_CountAlarm \/ Tick_LogTime \/ Tick_LogRest \/ Tick_LogTrim
    \/ AutoUpdate_AssignUpTo(MaxStopManual)
    \/ Manual_Solve \/ Manual_AdjustFw
    \/ Manual_SwHasattr \/ Manual_SwCreate \/ Manual_SwLaw
    \/ Manual_SwRaise \/ Manual_CountAlarm

StopSpec == Init /\ [][StopNext]_vars

(* lines 1633-1653, auto_update as one callback: manual_update with the     *)
(* controller's own DP1 and engine_load, update_ui, check_alarm_conditions  *)
auto_update(c, t4, t1) ==
    check_alarm_conditions(
      update_ui(manual_update(c, t4, t1, c.DP1, c.engine_load)))

(* the measured and commanded values and the memory of the pump laws *)
ControllerState(c) ==
    [ T1 |-> c.T1, T2 |-> c.T2, T4 |-> c.T4, T5 |-> c.T5, DP1 |-> c.DP1,
      engine_load |-> c.engine_load,
      fw_pump_freq |-> c.fw_pump_freq, sw_pump_freq |-> c.sw_pump_freq,
      fw_pump_count |-> c.fw_pump_count, sw_pump_count |-> c.sw_pump_count,
      m_FW |-> c.m_FW, m_SW |-> c.m_SW,
      alarm_active |-> c.alarm_active, alarm_message |-> c.alarm_message,
      has_sw_base_freq |-> c.has_sw_base_freq, prev_t5 |-> c.prev_t5,
      t5_direction |-> c.t5_direction,
      last_adjustment |-> c.last_adjustment ]

(* the states reached from c by whole update_system calls and whole         *)
(* auto_update callbacks in any order, at most ticks and manuals of them    *)
RECURSIVE SerialStates(_, _, _)
SerialStates(c, ticks, manuals) ==
    {ControllerState(c)}
    \cup (IF ticks > 0
          THEN UNION { SerialStates(update_system(c, c.last_update_time + 1,
                                                  t1_change, t4_change),
                                    ticks - 1, manuals) :
                         <<t1_change, t4_change>> \in SimChange \X SimChange }
          ELSE {})
    \cup (IF manuals > 0
          THEN UNION { SerialStates(auto_update(c, in[1], in[2]),
                                    ticks, manuals - 1) : in \in RaceInputs }
          ELSE {})

SerialOutcomes ==
    SerialStates(update_flow_rates(InitAttrs), MaxRaceTicks, MaxRaceManual)

---------------------------------------------------------------------------
(* The window's buttons and its auto-update timer beside the periodic tick, *)
(* every callback and every tick run as a whole                             *)

(* user actions, timer callbacks and ticks ModeSpec follows *)
MaxModeActions == 4

(* lines 1627-1666, auto_update past its guard, in the window w: the drawn  *)
(* T4 and T1 go to manual_update and into their entries (when these are     *)
(* enabled), update_ui and check_alarm_conditions follow, and the next      *)
(* callback is scheduled.                                                   *)
(* manual_update returns the T5, T2 and DP1 the callback leaves             *)
AutoUpdateBody(w) ==
    \E in \in RaceInputs :
      /\ ctrl' = auto_update(ctrl, in[1], in[2])
      /\ io' = [args |-> <<in[1], in[2], ctrl.DP1, ctrl.engine_load>>,
                ret |-> manual_update_return(ctrl')]
      /\ ui' = [w EXCEPT
                  !.entries = IF w.fields
                              THEN update_ui_entries(
                                     ctrl', <<format_1f(in[1]), format_1f(in[2]),
                                              @[3], @[4]>>, TRUE)
                              ELSE @,
                  !.fields = ctrl.user_input_mode,
                  !.dp1_field = TRUE,
                  !.pending = @ + 1]

(* lines 1592-1620, the auto-update button: switched on, it disables the    *)
(* data-entry and run buttons and calls auto_update; switched off, it       *)
(* enables the data-entry button and disables the entry fields.  No         *)
(* scheduled callback is cancelled                                          *)
ToggleAutoUpdate ==
    /\ IF ~ui.auto_update_active
       THEN /\ AutoUpdateBody([ui EXCEPT !.auto_update_active = TRUE,
                                         !.input_button = FALSE,
                                         !.run_button = FALSE])
            /\ last' = "manual_update"
       ELSE /\ ui' = [ui EXCEPT !.auto_update_active = FALSE,
                                !.input_button = TRUE,
                                !.fields = FALSE, !.dp1_field = FALSE]
            /\ last' = "toggle_auto_update"
            /\ UNCHANGED <<ctrl, io>>
    /\ pre' = Snapshot(ctrl)
    /\ UNCHANGED <<now, thr>>

(* lines 1622-1666: a scheduled auto_update callback runs; it returns at    *)
(* once when auto-update is off                                             *)
AutoUpdateTimer ==
    /\ ui.pending > 0
    /\ IF ui.auto_update_active
       THEN /\ AutoUpdateBody([ui EXCEPT !.pending = @ - 1])
            /\ last' = "manual_update"
       ELSE /\ ui' = [ui EXCEPT !.pending = @ - 1]
            /\ last' = "auto_update"
            /\ UNCHANGED <<ctrl, io>>
    /\ pre' = Snapshot(ctrl)
    /\ UNCHANGED <<now, thr>>

(* one periodic tick in whichever mode the controller is in *)
Tick ==
    /\ \E t1_change \in SimChange, t4_change \in SimChange :
         ctrl' = update_system(ctrl, now + 1, t1_change, t4_change)
    /\ now' = now + 1
    /\ last' = "update_system"
    /\ pre' = Snapshot(ctrl)
    /\ UNCHANGED <<io, ui, thr>>

ModeNext ==
    /\ runs < MaxModeActions
    /\ runs' = runs + 1
    /\ \/ ui.input_button /\ EnableManualInput
       \/ EditField
       \/ RunManualMode
       \/ ToggleAutoUpdate
       \/ AutoUpdateTimer
       \/ Tick

ModeSpec == Init /\ [][ModeNext]_vars

---------------------------------------------------------------------------
(* RandomDataGenerator: the class variables and the two generators          *)
(* auto_update calls, T1 first and T4 after it                              *)

(* auto_update callbacks GeneratorSpec follows *)
MaxGeneratorCalls == 2

(* the region names of the combobox: polar, temperate, tropical, and any    *)
(* other text, which takes the default branch                               *)
Regions == {"polar", "temperate", "tropical", "other"}

(* random.uniform(0.5, 1.0): both ends and the middle *)
UniformDraws == {Frac(1, 2), Frac(3, 4), R(1)}

t1_change_rate == Frac(1, 5)
t4_change_rate == Frac(3, 10)

(* lines 71-74: the class variables when the module is loaded; t1 and t4    *)
(* are the values the generators returned last, prev_t1 and prev_t4 the     *)
(* values they returned before that, region the selected region and next    *)
(* the generator auto_update calls next                                     *)
RandomDataGeneratorInit(region) ==
    [ current_t1 |-> R(25), current_t4 |-> R(40),
      t1_direction |-> 1, t4_direction |-> 1,
      t1 |-> Unset, t4 |-> Unset, prev_t1 |-> Unset, prev_t4 |-> Unset,
      region |-> region, next |-> "t1" ]

(* lines 80-118: <<t1_min, t1_max, t4_min, t4_max>> of the region *)
region_ranges(region) ==
    IF region = "polar" THEN <<R(0), R(10), R(40), R(53)>>
    ELSE IF region = "temperate" THEN <<R(10), R(25), R(38), R(48)>>
    ELSE IF region = "tropical" THEN <<R(25), R(36), R(36), R(45)>>
    ELSE <<R(0), R(36), R(36), R(53)>>

(* lines 80-118: what set_region_temperatures does to the class variables:  *)
(* a known region puts current_t1 and current_t4 back to its start values   *)
set_region_temperatures(g, region) ==
    IF region = "polar"
    THEN [g EXCEPT !.current_t1 = R(2), !.current_t4 = R(45)]
    ELSE IF region = "temperate"
    THEN [g EXCEPT !.current_t1 = R(15), !.current_t4 = R(42)]
    ELSE IF region = "tropical"
    THEN [g EXCEPT !.current_t1 = R(28), !.current_t4 = R(40)]
    ELSE g

(* lines 135-144 and 163-172: the value held to [lo, hi], and the direction *)
(* turned at a bound and then reversed when the 5% draw says so             *)
walk_value(x, lo, hi) ==
    IF RGe(x, hi) THEN hi ELSE IF RLe(x, lo) THEN lo ELSE x

walk_direction(x, lo, hi, direction, reverse) ==
    (IF RGe(x, hi) THEN -1 ELSE IF RLe(x, lo) THEN 1 ELSE direction)
      * (IF reverse THEN -1 ELSE 1)

(* lines 126-132: the value after the step of rate * direction * uniform *)
walk_step(x, rate, direction, uniform) ==
    IF direction = 1 THEN RAdd(x, RMul(rate, uniform))
    ELSE RSub(x, RMul(rate, uniform))

(* lines 121-146, on the class variables g left by set_region_temperatures *)
generate_t1_walk(g, lo, hi, uniform, reverse) ==
    [g EXCEPT
       !.current_t1 = walk_value(walk_step(g.current_t1, t1_change_rate,
                                           g.t1_direction, uniform), lo, hi),
       !.t1_direction = walk_direction(
                          walk_step(g.current_t1, t1_change_rate,
                                    g.t1_direction, uniform),
                          lo, hi, g.t1_direction, reverse)]

generate_t1_temperature_by_region(g, region, uniform, reverse) ==
    generate_t1_walk(set_region_temperatures(g, region),
                     region_ranges(region)[1], region_ranges(region)[2],
                     uniform, reverse)

(* lines 149-175 *)
generate_t4_walk(g, lo, hi, uniform, reverse) ==
    [g EXCEPT
       !.current_t4 = walk_value(walk_step(g.current_t4, t4_change_rate,
                                           g.t4_direction, uniform), lo, hi),
       !.t4_direction = walk_direction(
                          walk_step(g.current_t4, t4_change_rate,
                                    g.t4_direction, uniform),
                          lo, hi, g.t4_direction, reverse)]

generate_t4_temperature_by_region(g, region, uniform, reverse) ==
    generate_t4_walk(set_region_temperatures(g, region),
                     region_ranges(region)[3], region_ranges(region)[4],
                     uniform, reverse)

(* lines 146 and 175: the generator returns the current value; the value   *)
(* it returned before moves to prev_t1 / prev_t4                            *)
returned_t1(g) ==
    [g EXCEPT !.t1 = g.current_t1, !.prev_t1 = g.t1, !.next = "t4"]

returned_t4(g) ==
    [g EXCEPT !.t4 = g.current_t4, !.prev_t4 = g.t4, !.next = "t1"]

(* the program with the window open on a region, before the first callback *)
GeneratorInit ==
    /\ ctrl = update_flow_rates(InitAttrs)
    /\ now = 0
    /\ runs = 0
    /\ last = "__init__"
    /\ pre = Snapshot(ctrl)
    /\ \E region \in Regions : io = RandomDataGeneratorInit(region)
    /\ ui = InputWindowInit(ctrl)
    /\ thr = ThreadsInit

(* auto_update line 1629 *)
Generate_T1 ==
    /\ io.next = "t1"
    /\ runs < MaxGeneratorCalls
    /\ \E uniform \in UniformDraws, reverse \in BOOLEAN :
         io' = returned_t1(generate_t1_temperature_by_region(
                             io, io.region, uniform, reverse))
    /\ last' = "generate_t1_temperature_by_region"
    /\ UNCHANGED <<ctrl, now, runs, pre, ui, thr>>

(* auto_update line 1630; the callback ends after it *)
Generate_T4 ==
    /\ io.next = "t4"
    /\ \E uniform \in UniformDraws, reverse \in BOOLEAN :
         io' = returned_t4(generate_t4_temperature_by_region(
                             io, io.region, uniform, reverse))
    /\ last' = "generate_t4_temperature_by_region"
    /\ runs' = runs + 1
    /\ UNCHANGED <<ctrl, now, pre, ui, thr>>

GeneratorNext == Generate_T1 \/ Generate_T4

GeneratorSpec == GeneratorInit /\ [][GeneratorNext]_vars

---------------------------------------------------------------------------
(* The periodic loop with the inputs held: manual input is enabled, one     *)
(* manual update sets the inputs, and the worker ticks in user-input mode.  *)
(* io.seen records the controller state each of these ticks started from    *)

(* ticks HoldSpec follows after the manual update *)
MaxHoldTicks == 24

(* <<t4, t1, dp1, engine_load>> of the manual update: T4 above the range    *)
(* an autonomous tick keeps it in (manual_update takes any T4), at its top  *)
(* and inside it                                                            *)
HoldInputs ==
    { <<R(56), R(17), Frac(3, 2), R(75)>>,
      <<R(57), R(20), Frac(3, 2), R(75)>>,
      <<R(60), R(25), Frac(3, 2), R(75)>>,
      <<R(53), R(25), Frac(3, 2), R(75)>>,
      <<R(53), R(0), Frac(3, 2), R(75)>>,
      <<R(38), R(25), Frac(3, 2), R(75)>> }

(* the controller states the ticks made since the manual update started     *)
(* from, oldest first                                                       *)
Seen == IF "seen" \in DOMAIN io THEN io.seen ELSE <<>>

HoldTick ==
    /\ runs = 1
    /\ now < MaxHoldTicks
    /\ ~(ctrl.simulation_mode /\ ~ctrl.user_input_mode)
    /\ ctrl' = update_system(ctrl, now + 1, R(0), R(0))
    /\ now' = now + 1
    /\ last' = "update_system"
    /\ pre' = Snapshot(ctrl)
    /\ io' = [args |-> io.args, ret |-> io.ret,
              seen |-> Append(Seen, ControllerState(ctrl))]
    /\ UNCHANGED <<runs, ui, thr>>

HoldNext ==
    \/ ~ctrl.user_input_mode /\ EnableManualInput /\ UNCHANGED runs
    \/ ctrl.user_input_mode /\ runs = 0 /\ ManualUpdate(HoldInputs)
          /\ runs' = 1
    \/ HoldTick

HoldSpec == Init /\ [][HoldNext]_vars

---------------------------------------------------------------------------
(* The worker thread alone, over the ticks that take the sea water from its *)
(* start value to the top of its range, the main thread idle in the event   *)
(* loop (where the window's refresh reads the controller)                  *)

Drift_While == Run_WhileUpTo(MaxDriftTicks)

Drift_Simulate == Tick_SimulateWith(DriftT1Change, DriftT4Change)

DriftNext ==
    \/ Run_Start \/ Drift_While \/ Drift_Simulate
    \/ Tick_Solve \/ Tick_AdjustFw
    \/ Tick_SwHasattr \/ Tick_SwCreate \/ Tick_SwLaw
    \/ Tick_CountAlarm \/ Tick_LogTime \/ Tick_LogRest \/ Tick_LogTrim

DriftSpec == Init /\ [][DriftNext]_vars

---------------------------------------------------------------------------
(* The thermal solver as a function of the attributes it reads *)

SolverInit ==
    /\ \E t1 \in SolverT1, t4 \in SolverT4, fw \in SolverFW, sw \in SolverSW :
         ctrl = [InitAttrs EXCEPT !.T1 = t1, !.T4 = t4, !.m_FW = fw, !.m_SW = sw]
    /\ now = 0
    /\ runs = 0
    /\ last = "__init__"
    /\ pre = Snapshot(ctrl)
    /\ io = NoCall
    /\ ui = InputWindowInit(ctrl)
    /\ thr = ThreadsInit

(* one invocation of calculate_t5 *)
Solve ==
    /\ last = "__init__"
    /\ ctrl' = calculate_t5(ctrl)
    /\ last' = "calculate_t5"
    /\ pre' = Snapshot(ctrl)
    /\ UNCHANGED <<now, runs, io, ui, thr>>

SolverSpec == SolverInit /\ [][Solve]_vars

---------------------------------------------------------------------------
(* The alarm evaluation at the end of a run.  SetReadings stands for the    *)
(* part of a run that precedes it: manual_update stores DP1, calculate_t5   *)
(* stores T5 and T2.                                                       *)

SetReadings ==
    /\ last # "readings"
    /\ \E t5 \in AlarmT5, t2 \in AlarmT2, dp1 \in AlarmDP1 :
         ctrl' = [ctrl EXCEPT !.T5 = t5, !.T2 = t2, !.DP1 = dp1]
    /\ last' = "readings"
    /\ UNCHANGED <<now, runs, pre, io, ui, thr>>

CheckAlarm ==
    /\ last = "readings"
    /\ ctrl' = check_alarm_conditions(ctrl)
    /\ last' = "check_alarm_conditions"
    /\ pre' = Snapshot(ctrl)
    /\ UNCHANGED <<now, runs, io, ui, thr>>

AlarmNext == SetReadings \/ CheckAlarm

AlarmSpec == Init /\ [][AlarmNext]_vars

---------------------------------------------------------------------------
(* Properties *)

(* a pipeline run (update_system or manual_update) has just completed *)
RunDone == last \in {"update_system", "manual_update"}

(* a <= x <= b on rationals *)
RBetween(a, x, b) == RLe(a, x) /\ RLe(x, b)

(* C1: after every completed pipeline run, whatever the admitted inputs     *)
(* (T4 unconstrained), T1 <= T5 <= T4 and T1 <= T2 <= T4.                    *)
C1_RunKeepsTemperaturesOrdered ==
    RunDone =>
        /\ RBetween(ctrl.T1, ctrl.T5, ctrl.T4)
        /\ RBetween(ctrl.T1, ctrl.T2, ctrl.T4)

(* C2: in every reachable state fw_pump_freq is in [40,60], sw_pump_freq is *)
(* in [35,60] and both pump counts are 1 or 2.                              *)
C2_ActuatorsInRange ==
    /\ RBetween(R(40), ctrl.fw_pump_freq, R(60))
    /\ RBetween(R(35), ctrl.sw_pump_freq, R(60))
    /\ ctrl.fw_pump_count \in {1, 2}
    /\ ctrl.sw_pump_count \in {1, 2}

(* a tick has run with one pump per circuit, the sea-water pumps two steps  *)
(* below the top and the fresh-water pumps off their initial 45 Hz          *)
C2_Witness ==
    /\ last = "update_system"
    /\ ctrl.fw_pump_count = 1
    /\ ctrl.sw_pump_count = 1
    /\ ctrl.sw_pump_freq = R(56)
    /\ ctrl.fw_pump_freq # R(45)

(* calculate_t5 has just been invoked on its own *)
Solved == last = "calculate_t5"

(* C3: for nonnegative flows and T1 <= T4, one invocation of calculate_t5   *)
(* leaves T1 <= T5 <= T4 and T1 <= T2 <= T4, whichever side limits.         *)
C3_SolverOrdersOutlets ==
    (Solved /\ RLe(ctrl.T1, ctrl.T4)) =>
        /\ RBetween(ctrl.T1, ctrl.T5, ctrl.T4)
        /\ RBetween(ctrl.T1, ctrl.T2, ctrl.T4)

(* a sea-water-limited solve (C_fw > C_sw > 0) with both outlets strictly   *)
(* between the inlets                                                      *)
C3_Witness ==
    /\ Solved
    /\ ctrl.m_SW[1] > 0
    /\ RLt(C_sw(ctrl), C_fw(ctrl))
    /\ RLt(ctrl.T1, ctrl.T5) /\ RLt(ctrl.T5, ctrl.T4)
    /\ RLt(ctrl.T1, ctrl.T2) /\ RLt(ctrl.T2, ctrl.T4)

C5_Law(t4) ==
    IF RGe(RSub(t4, R(36)), R(17)) THEN R(60)
    ELSE IF RLe(RSub(t4, R(36)), R(0)) THEN R(40)
    ELSE RAdd(R(40), RMul(RDiv(RSub(t4, R(36)), R(17)), R(20)))

(* inlet temperatures below, at, inside and above the band [36,53] *)
C5_Samples == {R(20), R(36), R(38), Frac(89, 2), R(53), R(60)}

(* C5: after every pipeline run fw_pump_freq is the fresh-water law of the  *)
(* current T4, whatever it was before; the law is nondecreasing in T4, 40   *)
(* at and below 36, 60 at and above 53.                                     *)
C5_FreshWaterFollowsLaw ==
    /\ RunDone => ctrl.fw_pump_freq = C5_Law(ctrl.T4)
    /\ \A a, b \in C5_Samples :
         RLe(a, b) => RLe(fw_desired_freq(a), fw_desired_freq(b))
    /\ \A a \in C5_Samples :
         /\ RLe(a, R(36)) => fw_desired_freq(a) = R(40)
         /\ RGe(a, R(53)) => fw_desired_freq(a) = R(60)

(* a run that found the pumps at 60 Hz and left them at 40 + (2/17)*20,     *)
(* the law at T4 = 38                                                      *)
C5_Witness ==
    /\ RunDone
    /\ pre.fw_pump_freq = R(60)
    /\ ctrl.T4 = R(38)
    /\ ctrl.fw_pump_freq = Frac(720, 17)

(* the clamp to [35,60] as the claims state it *)
C6_Clamp(f) ==
    IF RLt(f, R(35)) THEN R(35) ELSE IF RGt(f, R(60)) THEN R(60) ELSE f

(* the run started with the hysteresis attributes in place, that is, after  *)
(* the first sea-water adjustment                                          *)
C6_AfterFirstAdjustment == RunDone /\ pre.has_sw_base_freq

(* C6 as stated: in every run after the first sea-water adjustment          *)
(* sw_pump_freq changes by exactly +2, -2 or 0 and stays in [35,60].        *)
C6_StepIsTwoOrZero ==
    C6_AfterFirstAdjustment =>
        /\ \/ ctrl.sw_pump_freq = RAdd(pre.sw_pump_freq, R(2))
           \/ ctrl.sw_pump_freq = RSub(pre.sw_pump_freq, R(2))
           \/ ctrl.sw_pump_freq = pre.sw_pump_freq
        /\ RBetween(R(35), ctrl.sw_pump_freq, R(60))

(* C6 amended: in every run after the first sea-water adjustment            *)
(* sw_pump_freq becomes its old value, or its old value +2 or -2 cut off at *)
(* the bounds 35 and 60 (so 36 -> 35 and 59 -> 60 change it by 1), and      *)
(* stays in [35,60].                                                        *)
C6_StepIsTwoZeroOrCutAtBound ==
    C6_AfterFirstAdjustment =>
        /\ \/ ctrl.sw_pump_freq = C6_Clamp(RAdd(pre.sw_pump_freq, R(2)))
           \/ ctrl.sw_pump_freq = C6_Clamp(RSub(pre.sw_pump_freq, R(2)))
           \/ ctrl.sw_pump_freq = pre.sw_pump_freq
        /\ RBetween(R(35), ctrl.sw_pump_freq, R(60))

(* a run that took the pumps from 36 Hz to the lower bound *)
C6_Witness ==
    /\ C6_AfterFirstAdjustment
    /\ pre.sw_pump_freq = R(36)
    /\ ctrl.sw_pump_freq = R(35)

(* the hysteresis attributes the adjustment of the last run started from:   *)
(* those of the state before the run, or the ones the first call creates    *)
C7_Before ==
    IF pre.has_sw_base_freq
    THEN [ sw_pump_freq |-> pre.sw_pump_freq, prev_t5 |-> pre.prev_t5,
           t5_direction |-> pre.t5_direction,
           last_adjustment |-> pre.last_adjustment ]
    ELSE [ sw_pump_freq |-> R(60), prev_t5 |-> ctrl.T5,
           t5_direction |-> None, last_adjustment |-> None ]

C7_CurrentDirection ==
    IF RGt(ctrl.T5, RAdd(C7_Before.prev_t5, Frac(1, 20))) THEN "up"
    ELSE IF RLt(ctrl.T5, RSub(C7_Before.prev_t5, Frac(1, 20))) THEN "down"
    ELSE C7_Before.t5_direction

(* previous and current direction both defined and different *)
C7_DirectionChanged ==
    /\ C7_Before.t5_direction \in {"up", "down"}
    /\ C7_CurrentDirection \in {"up", "down"}
    /\ C7_Before.t5_direction # C7_CurrentDirection

(* C7: with T5 > 36, sw_pump_freq and last_adjustment are left unchanged    *)
(* if last_adjustment = 'up' and the T5 direction changed in this call,     *)
(* otherwise the frequency becomes sw_pump_freq + 2 clamped to [35,60] and  *)
(* last_adjustment 'up'; with T5 < 34 the same with -2 and 'down'.          *)
C7_HoldOnlyOnReversal ==
    RunDone =>
        /\ RGt(ctrl.T5, R(36)) =>
              IF C7_Before.last_adjustment = "up" /\ C7_DirectionChanged
              THEN /\ ctrl.sw_pump_freq = C7_Before.sw_pump_freq
                   /\ ctrl.last_adjustment = C7_Before.last_adjustment
              ELSE /\ ctrl.sw_pump_freq =
                        C6_Clamp(RAdd(C7_Before.sw_pump_freq, R(2)))
                   /\ ctrl.last_adjustment = "up"
        /\ RLt(ctrl.T5, R(34)) =>
              IF C7_Before.last_adjustment = "down" /\ C7_DirectionChanged
              THEN /\ ctrl.sw_pump_freq = C7_Before.sw_pump_freq
                   /\ ctrl.last_adjustment = C7_Before.last_adjustment
              ELSE /\ ctrl.sw_pump_freq =
                        C6_Clamp(RSub(C7_Before.sw_pump_freq, R(2)))
                   /\ ctrl.last_adjustment = "down"

(* a hold above 36 with room to rise: T5 turned from rising to falling      *)
(* after an increase, and the pumps stay below 60 Hz                        *)
C7_Witness ==
    /\ RunDone
    /\ pre.has_sw_base_freq
    /\ RGt(ctrl.T5, R(36))
    /\ pre.last_adjustment = "up"
    /\ C7_DirectionChanged
    /\ RLt(pre.sw_pump_freq, R(60))
    /\ ctrl.sw_pump_freq = pre.sw_pump_freq

(* C8: after every run both pump counts are 1 if and only if engine_load is *)
(* below 10.0 and 2 otherwise (2 at exactly 10.0), within the same run that *)
(* changed the load.                                                        *)
C8_CountsFollowLoad ==
    RunDone =>
        IF RLt(ctrl.engine_load, R(10))
        THEN ctrl.fw_pump_count = 1 /\ ctrl.sw_pump_count = 1
        ELSE ctrl.fw_pump_count = 2 /\ ctrl.sw_pump_count = 2

(* a manual update that raised the load from 9.9 to exactly 10.0 and with   *)
(* it the counts from 1 to 2                                                *)
C8_Witness ==
    /\ last = "manual_update"
    /\ pre.engine_load = Frac(99, 10)
    /\ pre.fw_pump_count = 1 /\ pre.sw_pump_count = 1
    /\ ctrl.engine_load = R(10)
    /\ ctrl.fw_pump_count = 2 /\ ctrl.sw_pump_count = 2

(* check_alarm_conditions has just run *)
AlarmChecked == last = "check_alarm_conditions"

C9_T5High == RGt(ctrl.T5, R(40))
C9_T2High == RGt(ctrl.T2, R(49))
C9_DP1Low == RLt(ctrl.DP1, Frac(1, 2))
C9_DP1High == RGt(ctrl.DP1, Frac(5, 2))

(* C9: after every alarm evaluation alarm_active is true iff T5 > 40 or     *)
(* T2 > 49 or DP1 < 0.5 or DP1 > 2.5; when none holds alarm_active is false *)
(* and alarm_message is empty, whatever the alarm was before.               *)
C9_AlarmIffConditionNow ==
    AlarmChecked =>
        /\ ctrl.alarm_active <=>
              (C9_T5High \/ C9_T2High \/ C9_DP1Low \/ C9_DP1High)
        /\ ~(C9_T5High \/ C9_T2High \/ C9_DP1Low \/ C9_DP1High) =>
              (~ctrl.alarm_active /\ ctrl.alarm_message = "")

(* an evaluation that found an alarm active and cleared it *)
C9_Witness ==
    /\ AlarmChecked
    /\ pre.alarm_active
    /\ ~ctrl.alarm_active
    /\ ctrl.alarm_message = ""

(* C10: after the evaluation alarm_message names the last true condition    *)
(* in the order T5-high, T2-high, DP1-low, DP1-high, for every combination  *)
(* of conditions.                                                          *)
C10_LastTrueConditionNamed ==
    AlarmChecked =>
        ctrl.alarm_message =
            IF C9_DP1High THEN MsgDP1High
            ELSE IF C9_DP1Low THEN MsgDP1Low
            ELSE IF C9_T2High THEN MsgT2High
            ELSE IF C9_T5High THEN MsgT5High
            ELSE ""

(* T5, T2 and DP1-low alarms together: the DP1 message stands *)
C10_Witness ==
    /\ AlarmChecked
    /\ C9_T5High /\ C9_T2High /\ C9_DP1Low
    /\ ctrl.alarm_message = MsgDP1Low

(* C11: in every reachable state every history sequence (the parallel      *)
(* series and the snapshot list data_log) has length at most 1000.          *)
C11_HistoryAtMostCap ==
    /\ Len(ctrl.time_data) <= max_data_points
    /\ Len(ctrl.engine_load_data) <= max_data_points
    /\ Len(ctrl.data_log) <= max_data_points

(* the timestamps of the last max_data_points ticks, oldest first; tick k   *)
(* is stamped k                                                            *)
C12_LastTicks == [i \in 1..max_data_points |-> now - max_data_points + i]

(* C12: after n > 1000 ticks the history holds exactly the snapshots of the *)
(* last 1000 ticks in tick order, the older ones are absent, and all series *)
(* have the same length, index i of each belonging to the same tick.        *)
C12_HistoryIsLastThousandTicks ==
    (last = "update_system" /\ now > max_data_points) =>
        /\ ctrl.time_data = C12_LastTicks
        /\ Len(ctrl.engine_load_data) = Len(ctrl.time_data)
        /\ Len(ctrl.data_log) = Len(ctrl.time_data)
        /\ \A i \in 1..Len(ctrl.data_log) :
              ctrl.data_log[i].Time = ctrl.time_data[i]

(* the run just completed appended one entry to the series and to data_log *)
C13_OneSnapshotAppended ==
    /\ Len(ctrl.time_data) = pre.n_time_data + 1
    /\ Len(ctrl.data_log) = pre.n_data_log + 1

(* the run just completed left the history as it was *)
C13_NoSnapshotAppended ==
    /\ Len(ctrl.time_data) = pre.n_time_data
    /\ Len(ctrl.data_log) = pre.n_data_log

C14_Quiescent ==
    /\ thr.worker \in {"run", "while", "returned"}
    /\ thr.main \in {"mainloop", "stopped", "exited"}
    /\ ~thr.raised

(* C14: a manual update of the main thread and a tick of the worker never   *)
(* mix field by field: the controller's state, once both are through, is    *)
(* one that whole ticks and whole manual updates in some order produce.     *)
C14_StateIsSerialOutcome ==
    C14_Quiescent => ControllerState(ctrl) \in SerialOutcomes

(* C15: the window's refresh, run by the main thread between its callbacks  *)
(* while the worker is inside a tick, never reads T1, T5, T4 out of the     *)
(* order T1 <= T5 <= T4 (the inputs satisfying T1 <= T4).                   *)
C15_RefreshReadsOrderedTemperatures ==
    (thr.main = "mainloop" /\ RLe(ctrl.T1, ctrl.T4)) =>
        RBetween(ctrl.T1, ctrl.T5, ctrl.T4)

(* C16: save_data, called right after stop() while the worker may still be  *)
(* appending or trimming, finds all series of the same length and writes    *)
(* its rows.                                                                *)
C16_SaveDataReadsConsistentSeries ==
    /\ thr.main = "stopped" =>
          Len(ctrl.engine_load_data) = Len(ctrl.time_data)
    /\ thr.save_data # "failed"

(* C17: no operation raises under numeric input in any interleaving; the    *)
(* hysteresis attributes exist whenever the sea-water law reads them.       *)
C17_NoOperationRaises ==
    /\ thr.worker # "raised"
    /\ ~thr.raised

(* C18: after stop() has been called on a started worker, run() starts at   *)
(* most one further update_system before it returns.                        *)
C18_AtMostOneUpdateAfterStop ==
    thr.started_after_stop <= 1

(* C19: through every sequence of user actions (data-entry button, typing,  *)
(* run button) manual_update is only ever called with T1 in [0,36], DP1 in  *)
(* [0.1,3.0] and engine_load in [0,100], and a rejected entry leaves the    *)
(* controller's state unchanged.                                            *)
C19_ManualUpdateOnlyWithValidatedEntry ==
    /\ io.args # <<>> => entries_in_range(io.args)
    /\ last = "run_manual_mode_rejected" => Snapshot(ctrl) = pre

(* C20: a manual update that ran without interleaving has assigned its      *)
(* arguments as they are (T4 = t4, T1 = t1, DP1 = dp1, engine_load = the    *)
(* argument, no clamp and no random change) and has returned the triple     *)
(* (T5, T2, DP1) of the state it left.                                      *)
C20_ManualUpdateAssignsArguments ==
    last = "manual_update" =>
        /\ ctrl.T4 = io.args[1]
        /\ ctrl.T1 = io.args[2]
        /\ ctrl.DP1 = io.args[3]
        /\ ctrl.engine_load = io.args[4]
        /\ io.ret = <<ctrl.T5, ctrl.T2, ctrl.DP1>>

(* a manual update with T4 = 60, above the range a simulated tick keeps T4  *)
(* in, after which T4 is 60                                                 *)
C20_Witness ==
    /\ last = "manual_update"
    /\ io.args[1] = R(60)
    /\ ctrl.T4 = R(60)

---------------------------------------------------------------------------
(* The fail-safe lineage: CoolingSystemController of src/NEW_AI.py.  Its    *)
(* attributes are a record of their own; time.time() is the number of       *)
(* half seconds since construction, the interval run() keeps between two    *)
(* update_system calls                                                      *)

(* NEW_AI.py __init__ lines 20-72 *)
NEW_AI_InitAttrs ==
    [ T1 |-> R(25), T2 |-> R(30), T4 |-> R(38), T5 |-> R(36),
      m_FW |-> R(100), m_SW |-> R(120),
      fw_pump_freq |-> R(60), sw_pump_freq |-> R(60),
      max_freq_change_rate |-> Frac(1, 2),
      fw_pid |-> [prev_error |-> R(0), integral |-> R(0), last_time |-> R(0)],
      time_data |-> <<>>, t1_data |-> <<>>, t2_data |-> <<>>,
      t4_data |-> <<>>, t5_data |-> <<>>,
      fw_freq_data |-> <<>>, sw_freq_data |-> <<>>,
      alarm_active |-> FALSE, simulation_mode |-> TRUE, running |-> FALSE ]

(* np.clip(x, lo, hi) *)
clip(x, lo, hi) == RMin(RMax(x, lo), hi)

(* lines 74-82 *)
NEW_AI_calculate_t5(c) ==
    IF c.m_FW[1] > 0
    THEN [c EXCEPT !.T5 = RSub(c.T4, RMul(RDiv(c.m_SW, c.m_FW),
                                          RSub(c.T2, c.T1)))]
    ELSE [c EXCEPT !.T5 = c.T4]

(* lines 84-89 *)
NEW_AI_update_flow_rates(c) ==
    [c EXCEPT
       !.m_FW = RMul(R(100), RMul(RDiv(c.fw_pump_freq, R(60)),
                                  RDiv(c.fw_pump_freq, R(60)))),
       !.m_SW = RMul(R(120), RMul(RDiv(c.sw_pump_freq, R(60)),
                                  RDiv(c.sw_pump_freq, R(60))))]

(* lines 124-131: a frequency is stored when it moved by more than 0.01 *)
NEW_AI_store_freq(old_freq, new_freq) ==
    IF RAbsDiffLt(new_freq, old_freq, Frac(1, 100)) \/
       RSub(new_freq, old_freq) \in {Frac(1, 100), Frac(-1, 100)}
    THEN old_freq
    ELSE new_freq

(* lines 104-121: the PID output for the error delta_T after dt seconds,    *)
(* cut to the rate limit; integral is the sum already updated               *)
NEW_AI_pid_output(c, delta_T, dt, integral) ==
    clip(RAdd(RAdd(RMul(Frac(3, 2), delta_T), RMul(Frac(1, 20), integral)),
              RDiv(RMul(Frac(1, 50), RSub(delta_T, c.fw_pid.prev_error)),
                   dt)),
         RNeg(RMul(c.max_freq_change_rate, dt)),
         RMul(c.max_freq_change_rate, dt))

(* lines 100-131 for dt > 0 *)
NEW_AI_fw_step(c, current_time, delta_T, dt, integral) ==
    [c EXCEPT
       !.fw_pump_freq =
           NEW_AI_store_freq(@, clip(RAdd(@, NEW_AI_pid_output(c, delta_T, dt,
                                                               integral)),
                                     R(40), R(60))),
       !.fw_pid = [prev_error |-> delta_T, integral |-> integral,
                   last_time |-> current_time]]

(* lines 91-131 *)
NEW_AI_adjust_fw_pump_frequency(c, current_time) ==
    IF RGt(current_time, c.fw_pid.last_time)
    THEN NEW_AI_fw_step(c, current_time, RSub(c.T4, R(36)),
                        RSub(current_time, c.fw_pid.last_time),
                        RAdd(c.fw_pid.integral,
                             RMul(RSub(c.T4, R(36)),
                                  RSub(current_time, c.fw_pid.last_time))))
    ELSE c

(* lines 138-150: the target frequency for the elapsed time dt *)
NEW_AI_sw_new_freq(c, dt) ==
    IF RGt(c.T5, R(36))
    THEN RAdd(c.sw_pump_freq, RMul(c.max_freq_change_rate, dt))
    ELSE IF RLt(c.T5, R(34))
    THEN RAdd(c.sw_pump_freq, RNeg(RMul(c.max_freq_change_rate, dt)))
    ELSE c.sw_pump_freq

(* lines 133-159: dt is taken against the time stamp adjust_fw_pump_frequency*)
(* has just stored                                                          *)
NEW_AI_adjust_sw_pump_frequency(c, current_time) ==
    [c EXCEPT !.sw_pump_freq =
        NEW_AI_store_freq(@, clip(NEW_AI_sw_new_freq(
                                    c, RSub(current_time, c.fw_pid.last_time)),
                                  R(35), R(60)))]

(* x[-k] of a Python list *)
FromEnd(x, k) == x[Len(x) + 1 - k]

(* lines 164-166: the guard of the rapid-change check *)
NEW_AI_rapid_window(time_data, t4_data) ==
    /\ Len(t4_data) > 5
    /\ Len(time_data) >= 2
    /\ RLe(RSub(FromEnd(time_data, 1), FromEnd(time_data, 5)), R(5))

(* lines 167-168: a change of 3 degrees or more over the window *)
NEW_AI_rapid_change(t4_data) ==
    ~RAbsDiffLt(FromEnd(t4_data, 1), FromEnd(t4_data, 5), R(3))

(* lines 163-179 *)
NEW_AI_check_rapid_change(c) ==
    IF NEW_AI_rapid_window(c.time_data, c.t4_data)
    THEN IF NEW_AI_rapid_change(c.t4_data)
         THEN [c EXCEPT !.alarm_active = TRUE,
                        !.max_freq_change_rate = Frac(1, 5)]
         ELSE [c EXCEPT !.alarm_active = FALSE,
                        !.max_freq_change_rate = Frac(1, 2)]
    ELSE c

(* lines 182-185 *)
NEW_AI_sensor_fault(c) ==
    \/ RLt(c.T1, R(0)) \/ RGt(c.T1, R(50))
    \/ RLt(c.T2, R(0)) \/ RGt(c.T2, R(60))
    \/ RLt(c.T4, R(0)) \/ RGt(c.T4, R(70))
    \/ RLt(c.T5, R(0)) \/ RGt(c.T5, R(70))

(* the fail-safe taken only while no alarm is active, and raising one *)
NEW_AI_check_sensors_once(c) ==
    IF NEW_AI_sensor_fault(c) /\ ~c.alarm_active
    THEN [c EXCEPT !.fw_pump_freq = R(45), !.sw_pump_freq = R(45),
                   !.alarm_active = TRUE]
    ELSE c

(* lines 181-188 *)
NEW_AI_check_sensors(c) ==
    IF NEW_AI_sensor_fault(c)
    THEN [c EXCEPT !.fw_pump_freq = R(45), !.sw_pump_freq = R(45)]
    ELSE c

(* lines 161-188 *)
NEW_AI_check_alarms(c) == NEW_AI_check_sensors(NEW_AI_check_rapid_change(c))

(* lines 215-219: T2 from the heat the fresh water gives off *)
NEW_AI_simulate_t2(c) ==
    IF c.m_SW[1] > 0
    THEN [c EXCEPT !.T2 = RAdd(c.T1, RDiv(RMul(c.m_FW, RSub(c.T4, c.T5)),
                                          c.m_SW))]
    ELSE [c EXCEPT !.T2 = c.T1]

(* lines 190-219: load_factor is the clipped load pattern, target_t1 the    *)
(* sea temperature pattern, both with their random terms                    *)
NEW_AI_simulate_temperature_changes(c, load_factor, target_t1) ==
    IF ~c.simulation_mode THEN c
    ELSE NEW_AI_simulate_t2(
           [c EXCEPT
              !.T4 = RAdd(@, RMul(RSub(RAdd(R(32), RMul(R(10), load_factor)),
                                       @), Frac(1, 20))),
              !.T1 = RAdd(@, RMul(RSub(target_t1, @), Frac(1, 50)))])

(* lines 236-244 *)
NEW_AI_log_append(c, current_time) ==
    [c EXCEPT !.time_data = Append(@, current_time),
              !.t1_data = Append(@, c.T1),
              !.t2_data = Append(@, c.T2),
              !.t4_data = Append(@, c.T4),
              !.t5_data = Append(@, c.T5),
              !.fw_freq_data = Append(@, c.fw_pump_freq),
              !.sw_freq_data = Append(@, c.sw_pump_freq)]

(* lines 246-255 *)
NEW_AI_log_trim(c) ==
    IF Len(c.time_data) > max_data_points
    THEN [c EXCEPT !.time_data = Tail_n(@, max_data_points),
                   !.t1_data = Tail_n(@, max_data_points),
                   !.t2_data = Tail_n(@, max_data_points),
                   !.t4_data = Tail_n(@, max_data_points),
                   !.t5_data = Tail_n(@, max_data_points),
                   !.fw_freq_data = Tail_n(@, max_data_points),
                   !.sw_freq_data = Tail_n(@, max_data_points)]
    ELSE c

(* lines 221-255: the clock reads current_time in adjust_fw_pump_frequency  *)
(* and current_time + delay in adjust_sw_pump_frequency and at the log      *)
NEW_AI_update_system(c, current_time, delay, load_factor, target_t1) ==
    NEW_AI_log_trim(
      NEW_AI_log_append(
        NEW_AI_check_alarms(
          NEW_AI_adjust_sw_pump_frequency(
            NEW_AI_adjust_fw_pump_frequency(
              NEW_AI_calculate_t5(
                NEW_AI_simulate_temperature_changes(
                  NEW_AI_update_flow_rates(c), load_factor, target_t1)),
              current_time),
            RAdd(current_time, delay))),
        RAdd(current_time, delay)))

(* ticks FailSafeSpec follows, the ticks among them taken in simulation     *)
(* mode, and the times the readings are assigned from outside               *)
MaxFailSafeTicks == 8
MaxSimulatedTicks == 2
MaxAssignments == 2

(* the draws of a simulated tick: the ends of the clipped load factor, and  *)
(* a sea temperature target at the top of the 22 +- 5 degree pattern        *)
LoadFactor == {Frac(1, 5), R(1)}
TargetT1 == {R(27)}

(* the time between the two clock reads of a tick *)
ClockDelay == {Frac(1, 1000)}

(* <<T1, T2, T4>> as the plant delivers them: a normal reading, a jump of   *)
(* T4 inside its range, each of T1, T2, T4 outside its range, and in-range  *)
(* readings whose heat balance puts T5 below 0                              *)
SensorReadings ==
    { <<R(25), R(30), R(38)>>, <<R(25), R(30), R(42)>>,
      <<R(-1), R(30), R(38)>>, <<R(25), R(61), R(38)>>,
      <<R(25), R(30), R(71)>>, <<R(25), R(58), R(38)>> }

(* the attributes a tick of this lineage is compared against afterwards *)
NEW_AI_Snapshot(c) ==
    [ alarm_active |-> c.alarm_active,
      max_freq_change_rate |-> c.max_freq_change_rate,
      fw_pump_freq |-> c.fw_pump_freq,
      sw_pump_freq |-> c.sw_pump_freq,
      time_data |-> c.time_data,
      t4_data |-> c.t4_data ]

FailSafeInit ==
    /\ ctrl = NEW_AI_InitAttrs
    /\ now = 0
    /\ runs = 0
    /\ last = "__init__"
    /\ pre = NEW_AI_Snapshot(ctrl)
    /\ io = [args |-> <<>>, ret |-> <<>>, assignments |-> 0]
    /\ ui = <<>>
    /\ thr = <<>>

(* the readings T1, T2 and T4 are assigned from the plant instead of the    *)
(* simulation                                                               *)
AssignReadings ==
    /\ io.assignments < MaxAssignments
    /\ \E r \in SensorReadings :
         /\ ctrl' = [ctrl EXCEPT !.simulation_mode = FALSE,
                                 !.T1 = r[1], !.T2 = r[2], !.T4 = r[3]]
         /\ io' = [io EXCEPT !.args = r, !.assignments = @ + 1]
    /\ last' = "assign"
    /\ UNCHANGED <<now, runs, pre, ui, thr>>

(* one pass of the loop of run(): update_system half a second after the     *)
(* previous one                                                             *)
NEW_AI_Tick ==
    /\ runs < MaxFailSafeTicks
    /\ ctrl.simulation_mode => runs < MaxSimulatedTicks
    /\ \E delay \in ClockDelay :
         IF ctrl.simulation_mode
         THEN \E load_factor \in LoadFactor, target_t1 \in TargetT1 :
                ctrl' = NEW_AI_update_system(ctrl, Frac(now + 1, 2), delay,
                                             load_factor, target_t1)
         ELSE ctrl' = NEW_AI_update_system(ctrl, Frac(now + 1, 2), delay,
                                           R(1), R(22))
    /\ now' = now + 1
    /\ runs' = runs + 1
    /\ last' = "NEW_AI_update_system"
    /\ pre' = NEW_AI_Snapshot(ctrl)
    /\ UNCHANGED <<io, ui, thr>>

FailSafeNext == AssignReadings \/ NEW_AI_Tick

FailSafeSpec == FailSafeInit /\ [][FailSafeNext]_vars

---------------------------------------------------------------------------
(* FlowModel applied to the frequencies and counts of a snapshot *)
FlowOf(snap) == update_flow_rates(snap)

(* C21 as stated: the flows the solve of run n (n >= 2) reads are FlowModel *)
(* of the frequencies and counts committed at the end of run n-1, which are *)
(* the ones run n starts with                                              *)
C21_SolveReadsFlowOfLastCommand ==
    (RunDone /\ runs >= 2) =>
        /\ ctrl.solve_m_FW = FlowOf(pre).m_FW
        /\ ctrl.solve_m_SW = FlowOf(pre).m_SW

(* C21: the flows the solve of run n (n >= 2) reads are the ones run n-1    *)
(* stored, and those are FlowModel of the frequencies and counts run n-1    *)
(* started with, committed at the end of run n-2: a lag of two runs        *)
C21_SolveReadsFlowOfCommandBeforeLast ==
    [][ (runs >= 1 /\ runs' = runs + 1 /\ last \in {"update_system", "manual_update"})
          => /\ ctrl'.solve_m_FW = ctrl.m_FW
             /\ ctrl'.solve_m_SW = ctrl.m_SW
             /\ ctrl.m_FW = FlowOf(pre).m_FW
             /\ ctrl.m_SW = FlowOf(pre).m_SW ]_vars

(* a second run whose solve read a sea-water flow that is not FlowModel of  *)
(* the frequency the first run committed                                   *)
C21_Witness ==
    /\ RunDone /\ runs >= 2
    /\ ctrl.solve_m_SW = pre.m_SW
    /\ pre.m_SW # FlowOf(pre).m_SW

(* C22: the flows stored at the end of a run are 1290*(f/60)*c and          *)
(* 1500*(f'/60)*c' for the frequencies and counts the run started with,     *)
(* not the ones the controllers and the scheduler computed during it       *)
C22_FlowsFromStartOfRunActuators ==
    RunDone =>
        /\ ctrl.m_FW = RMul(RMul(R(1290), RDiv(pre.fw_pump_freq, R(60))),
                            R(pre.fw_pump_count))
        /\ ctrl.m_SW = RMul(RMul(R(1500), RDiv(pre.sw_pump_freq, R(60))),
                            R(pre.sw_pump_count))

(* a tick that changed both frequencies and left flows that differ from     *)
(* FlowModel of the values it committed                                    *)
C22_Witness ==
    /\ last = "update_system"
    /\ ctrl.sw_pump_freq # pre.sw_pump_freq
    /\ ctrl.fw_pump_freq # pre.fw_pump_freq
    /\ ctrl.m_SW # FlowOf(ctrl).m_SW
    /\ ctrl.m_FW # FlowOf(ctrl).m_FW

(* the value the rapid-change check of the tick just ended leaves in        *)
(* alarm_active: it looks at the series as they were before the tick's own  *)
(* entry was appended                                                       *)
C23_AlarmAfterRapidCheck ==
    IF NEW_AI_rapid_window(pre.time_data, pre.t4_data)
    THEN NEW_AI_rapid_change(pre.t4_data)
    ELSE pre.alarm_active

(* C23: a tick of the NEW_AI.py lineage whose alarm check finds T1 outside  *)
(* [0,50], T2 outside [0,60], T4 or T5 outside [0,70] ends with both        *)
(* frequencies at 45 whatever the controllers computed, and alarm_active is *)
(* what the rapid-change check left: the fail-safe neither reads nor        *)
(* writes it                                                                *)
C23_SensorFaultForcesFortyFive ==
    (last = "NEW_AI_update_system" /\ NEW_AI_sensor_fault(ctrl)) =>
        /\ ctrl.fw_pump_freq = R(45)
        /\ ctrl.sw_pump_freq = R(45)
        /\ ctrl.alarm_active = C23_AlarmAfterRapidCheck

(* a fault tick entered with the alarm active and a fresh-water frequency   *)
(* other than 45                                                            *)
C23_Witness ==
    /\ last = "NEW_AI_update_system"
    /\ NEW_AI_sensor_fault(ctrl)
    /\ pre.alarm_active
    /\ pre.fw_pump_freq # R(45)

(* the step of run_manual_mode past its checks: it alone leaves the run     *)
(* button disabled after a manual update                                    *)
C24_RunManualModeStep == last' = "manual_update" /\ ~ui'.run_button

(* C24: the refresh made inside run_manual_mode leaves every attribute of   *)
(* the controller, the flows m_FW and m_SW included, as manual_update and   *)
(* the alarm check left them                                                *)
C24_RefreshLeavesControllerUnchanged ==
    [][ C24_RunManualModeStep =>
          ctrl' = check_alarm_conditions(
                    manual_update(ctrl, ui.entries[1], ui.entries[2],
                                  ui.entries[3], ui.entries[4])) ]_vars

(* the controller after run_manual_mode with the flows put back to what     *)
(* manual_update had stored, FlowModel of the values the run started with   *)
C24_NotRefreshed ==
    [ctrl EXCEPT !.m_FW = FlowOf(pre).m_FW, !.m_SW = FlowOf(pre).m_SW]

(* C24, second half: the next manual update computes the same T2 and T5     *)
(* with and without the refresh in between                                  *)
C24_RefreshKeepsNextRun ==
    (last = "manual_update" /\ ~ui.run_button) =>
        \A in \in LoopInputs :
            manual_update_return(manual_update(ctrl, in[1], in[2], in[3], in[4]))
              = manual_update_return(
                  manual_update(C24_NotRefreshed, in[1], in[2], in[3], in[4]))

(* the refinement loop written out from the claim.  C25_Pass: c is the      *)
(* state a pass starts from, c1 the state after its calculate_t2, p the     *)
(* state after its calculate_t5; the pass is the n-th.  The loop ends with  *)
(* <<n, p>> when both changes are below 0.01 or n is the cap                *)
RECURSIVE C25_Loop(_, _)

C25_Pass(c, c1, p, n) ==
    IF \/ n >= refine_passes
       \/ /\ RAbsDiffLt(p.T2, c.T2, Frac(1, 100))
          /\ RAbsDiffLt(p.T5, c1.T5, Frac(1, 100))
    THEN <<n, p>>
    ELSE C25_Loop(p, n + 1)

C25_Solved(c, c1, n) == C25_Pass(c, c1, calculate_t5(c1), n)

C25_Loop(c, n) == C25_Solved(c, calculate_t2(c), n)

(* the state the loop of the run just ended started from: T1 and T4 as the  *)
(* run left them, T2 and the flows as they were before the run, T5 as it    *)
(* was before the run or, in a manual update, as the T5 guard set it        *)
C25_LoopStart ==
    [ctrl EXCEPT
       !.T2 = pre.T2,
       !.T5 = IF last = "manual_update"
              THEN t5_init_guard([T5 |-> pre.T5, T4 |-> ctrl.T4]).T5
              ELSE pre.T5,
       !.m_FW = pre.m_FW,
       !.m_SW = pre.m_SW]

(* the run ended with the pass count and the T2, T5 of the loop outcome r *)
C25_EndedAs(r) ==
    /\ ctrl.passes = r[1]
    /\ ctrl.T2 = r[2].T2
    /\ ctrl.T5 = r[2].T5

(* C25: the refinement loop of a run makes between 1 and 3 passes, ends     *)
(* with the first pass whose T2 and T5 changes are both below 0.01, and the *)
(* pipeline goes on with the T2 and T5 of the last pass made                *)
C25_LoopStopsAtFirstConvergedPass ==
    RunDone =>
        /\ ctrl.passes \in 1..refine_passes
        /\ C25_EndedAs(C25_Loop(C25_LoopStart, 1))

(* a run whose first pass moved T2 by 0.01 or more, so that a second pass   *)
(* was made and ended the loop                                              *)
C25_Witness ==
    /\ RunDone
    /\ ctrl.passes = 2
    /\ ~RAbsDiffLt(ctrl.T2, pre.T2, Frac(1, 100))

(* a run whose first pass already converged *)
C25_WitnessOnePass == RunDone /\ ctrl.passes = 1

(* the cap is reached without convergence *)
C25_CapReached == RunDone /\ ctrl.passes = refine_passes

(* T5 lies in the dead zone, both bounds included *)
C26_DeadZone == RunDone /\ RLe(R(34), ctrl.T5) /\ RLe(ctrl.T5, R(36))

C27_Read ==
    [ T5 |-> ctrl.T5, prev_t5 |-> C7_Before.prev_t5,
      t5_direction |-> C7_Before.t5_direction ]

C27_WitnessTurned ==
    /\ RunDone /\ pre.has_sw_base_freq
    /\ pre.t5_direction = "up"
    /\ ctrl.t5_direction = "down"
    /\ direction_changed(C27_Read)

C28_WitnessLater ==
    /\ RunDone /\ pre.has_sw_base_freq
    /\ RLt(pre.sw_pump_freq, R(60))
    /\ ctrl.t5_direction = "up"

(* a first adjustment made with T5 above 36 *)
C28_WitnessHigh ==
    /\ RunDone /\ ~pre.has_sw_base_freq
    /\ RGt(ctrl.T5, R(36))
    /\ ctrl.sw_pump_freq = R(60)

(* C29: at the end of a run both frequencies are the ones the frequency     *)
(* controllers computed from the run's T4 and T5 and the frequencies the    *)
(* run started with; the scheduler that runs after them has not changed     *)
(* them, whether or not it changed the pump counts                          *)
C29_SchedulerKeepsFrequencies ==
    [][ last' \in {"update_system", "manual_update"} =>
          /\ ctrl'.fw_pump_freq =
               adjust_fw_pump_frequency(
                 [ctrl EXCEPT !.T4 = ctrl'.T4]).fw_pump_freq
          /\ ctrl'.sw_pump_freq =
               adjust_sw_pump_frequency(
                 [ctrl EXCEPT !.T5 = ctrl'.T5]).sw_pump_freq ]_vars

(* a run in which the scheduler changed the counts from 2 to 1 and the      *)
(* controllers moved both frequencies, to values below 60                   *)
C29_Witness ==
    /\ RunDone
    /\ pre.fw_pump_count = 2 /\ ctrl.fw_pump_count = 1
    /\ pre.sw_pump_count = 2 /\ ctrl.sw_pump_count = 1
    /\ ctrl.fw_pump_freq # pre.fw_pump_freq
    /\ ctrl.sw_pump_freq # pre.sw_pump_freq
    /\ RLt(ctrl.fw_pump_freq, R(60)) /\ RLt(ctrl.sw_pump_freq, R(60))

(* a run in which the counts went back from 1 to 2 *)
C29_WitnessUp ==
    /\ RunDone
    /\ pre.fw_pump_count = 1 /\ ctrl.fw_pump_count = 2
    /\ RLt(ctrl.sw_pump_freq, R(60))

(* the tick just ended ran in autonomous mode (a tick changes neither flag) *)
C30_AutonomousTick ==
    /\ last = "update_system"
    /\ ctrl.simulation_mode /\ ~ctrl.user_input_mode

(* C30: after every tick executed in autonomous mode T1 lies in [0,36] and  *)
(* T4 in [36,53], also when the tick started from values a manual update    *)
(* had put outside these ranges                                             *)
C30_TickClampsInlets ==
    C30_AutonomousTick =>
        /\ RLe(R(0), ctrl.T1) /\ RLe(ctrl.T1, R(36))
        /\ RLe(R(36), ctrl.T4) /\ RLe(ctrl.T4, R(53))

(* an autonomous tick that started with the T4 = 60 of a manual update and  *)
(* ended with T4 = 53                                                       *)
C30_Witness ==
    /\ C30_AutonomousTick
    /\ pre.T4 = R(60)
    /\ ctrl.T4 = R(53)

(* an autonomous tick that started with T4 = 20 and ended with T4 = 36 *)
C30_WitnessLow ==
    /\ C30_AutonomousTick
    /\ pre.T4 = R(20)
    /\ ctrl.T4 = R(36)

(* an autonomous tick that started and ended with T1 = 36 *)
C30_WitnessT1 ==
    /\ C30_AutonomousTick
    /\ pre.T1 = R(36)
    /\ ctrl.T1 = R(36)

(* the four inputs of the pipeline *)
C31_Inputs(c) == <<c.T1, c.T4, c.DP1, c.engine_load>>

(* the controller is not in autonomous mode *)
C31_Held(c) == c.user_input_mode \/ ~c.simulation_mode

(* C31: a periodic tick never changes DP1 or engine_load, and with          *)
(* user_input_mode true or simulation_mode false it leaves T1 and T4 as     *)
(* they are too; DP1 and engine_load in any mode, and T1 and T4 outside     *)
(* autonomous mode, change only in steps that call manual_update            *)
C31_TickKeepsInputs ==
    [][ /\ last' = "update_system" =>
             /\ ctrl'.DP1 = ctrl.DP1
             /\ ctrl'.engine_load = ctrl.engine_load
             /\ C31_Held(ctrl) => (ctrl'.T1 = ctrl.T1 /\ ctrl'.T4 = ctrl.T4)
        /\ (ctrl'.DP1 # ctrl.DP1 \/ ctrl'.engine_load # ctrl.engine_load)
             => last' = "manual_update"
        /\ (C31_Held(ctrl) /\ C31_Inputs(ctrl') # C31_Inputs(ctrl))
             => last' = "manual_update" ]_vars

(* a tick in user-input mode that found the T4 = 60 of a manual update,     *)
(* above the range an autonomous tick keeps T4 in, and left it              *)
C31_Witness ==
    /\ last = "update_system"
    /\ C31_Held(ctrl)
    /\ pre.T4 = R(60)
    /\ ctrl.T4 = R(60)

(* C32: with T1, T4, DP1 and engine_load held (ticks in user-input mode,    *)
(* T1 <= T4) the sea-water loop does not ping-pong forever.  A tick with    *)
(* held inputs is a function of the controller state, so a state that       *)
(* returns repeats everything between its two occurrences without end: the  *)
(* loop settles only if no state returns after sw_pump_freq has differed    *)
(* from its value in that state                                             *)
C32_SeaWaterLoopSettles ==
    \A i \in 1..Len(Seen) :
        Seen[i] = ControllerState(ctrl) =>
            \A j \in i..Len(Seen) :
                Seen[j].sw_pump_freq = ctrl.sw_pump_freq

(* the stored T5 direction is the same after the adjustment as before it *)
C33_SameWay == ctrl.t5_direction = C7_Before.t5_direction

(* the stored T5 direction went from one of 'up', 'down' to the other *)
C33_Flipped ==
    /\ C7_Before.t5_direction \in {"up", "down"}
    /\ ctrl.t5_direction \in {"up", "down"}
    /\ ctrl.t5_direction # C7_Before.t5_direction

(* the hold is taken only in a call in which the stored direction flips,    *)
(* and last_adjustment, once 'up' or 'down', stays one of the two           *)
C33_HoldOnlyOnFlip ==
    /\ ctrl.sw_held => C33_Flipped
    /\ (pre.has_sw_base_freq /\ pre.last_adjustment \in {"up", "down"})
          => ctrl.last_adjustment \in {"up", "down"}

(* C33 as stated: the hold is taken only in the call in which the stored    *)
(* direction flips; in a call with T5 above 36.0 and the direction as       *)
(* stored, sw_pump_freq goes up by 2.0 (down by 2.0 with T5 below 34.0);    *)
(* last_adjustment never returns to none                                    *)
C33_StepOfTwoAfterHold ==
    RunDone =>
        /\ C33_HoldOnlyOnFlip
        /\ (RGt(ctrl.T5, R(36)) /\ C33_SameWay) =>
              /\ ctrl.sw_pump_freq = RAdd(C7_Before.sw_pump_freq, R(2))
              /\ ctrl.last_adjustment = "up"
        /\ (RLt(ctrl.T5, R(34)) /\ C33_SameWay) =>
              /\ ctrl.sw_pump_freq = RSub(C7_Before.sw_pump_freq, R(2))
              /\ ctrl.last_adjustment = "down"

(* C33, amended: the same with the step cut off at the bounds: the          *)
(* frequency becomes sw_pump_freq + 2.0 clamped to [35,60] (sw_pump_freq -  *)
(* 2.0 clamped with T5 below 34.0), which is less than 2.0 away, or not     *)
(* away at all, when the pumps are at or next to the bound                  *)
C33_HoldLastsOneAdjustment ==
    RunDone =>
        /\ C33_HoldOnlyOnFlip
        /\ (RGt(ctrl.T5, R(36)) /\ C33_SameWay) =>
              /\ ctrl.sw_pump_freq =
                   C6_Clamp(RAdd(C7_Before.sw_pump_freq, R(2)))
              /\ ctrl.last_adjustment = "up"
        /\ (RLt(ctrl.T5, R(34)) /\ C33_SameWay) =>
              /\ ctrl.sw_pump_freq =
                   C6_Clamp(RSub(C7_Before.sw_pump_freq, R(2)))
              /\ ctrl.last_adjustment = "down"

(* the run after a hold above 36: T5 is still above 36 and has not turned   *)
(* again, and the pumps, which had room, are 2 Hz up                        *)
C33_Witness ==
    /\ RunDone
    /\ pre.sw_held
    /\ RGt(pre.T5, R(36))
    /\ RGt(ctrl.T5, R(36))
    /\ C33_SameWay
    /\ ctrl.sw_pump_freq = RAdd(pre.sw_pump_freq, R(2))

(* a run held after the one before it was held: T5 turned twice *)
C33_WitnessHeldTwice ==
    /\ RunDone
    /\ pre.sw_held
    /\ ctrl.sw_held

(* prior outlet temperatures <<T5, T2>> a controller state may hold *)
C34_Priors == { <<R(30), R(28)>>, <<R(36), R(36)>>, <<R(50), R(20)>> }

(* the outlets <<T5, T2>> the refinement loop started from c ends with *)
C34_Outlets(c) == <<c.T5, c.T2>>
C34_Refined(c) == C34_Outlets(refine(c, 0))

(* the pipeline of manual_update without its T5 guard *)
C34_Unguarded(c, t4, t1, dp1, engine_load) ==
    check_alarm_conditions(
      adjust_pump_count_by_load(
        adjust_sw_pump_frequency(
          adjust_fw_pump_frequency(
            update_flow_rates(
              refine([c EXCEPT !.T4 = t4, !.T1 = t1, !.DP1 = dp1,
                               !.engine_load = engine_load], 0))))))

(* C34: the refinement started from the controller's state ends with the    *)
(* same T5 and T2 whatever T5 and T2 it starts from, T1, T4 and the flows    *)
(* being equal; and manual_update leaves the same state, and so returns the *)
(* same T5, T2 and DP1, as its pipeline without the T5 guard                *)
C34_SolveIsMemoryless ==
    /\ \A p \in C34_Priors :
         C34_Refined([ctrl EXCEPT !.T5 = p[1], !.T2 = p[2]])
           = C34_Refined(ctrl)
    /\ \A in \in GuardInputs :
         ControllerState(manual_update(ctrl, in[1], in[2], in[3], in[4]))
           = ControllerState(C34_Unguarded(ctrl, in[1], in[2], in[3], in[4]))

(* a manual update whose guard fired (the T5 it found was within 0.1 of the *)
(* T4 it assigned) and that left a T5 other than the guard's T4 - 2.0       *)
C34_Witness ==
    /\ last = "manual_update"
    /\ RAbsDiffLt(pre.T5, ctrl.T4, Frac(1, 10))
    /\ ctrl.T5 # RSub(ctrl.T4, R(2))


(* the state the refinement loop of the run just ended worked on: inputs as *)
(* the run left them, flows as they were before the run, and the T2 and T5  *)
(* the loop found                                                           *)
C35_LoopStart ==
    [ctrl EXCEPT !.T2 = pre.T2, !.T5 = pre.T5,
                 !.m_FW = pre.m_FW, !.m_SW = pre.m_SW]

(* the T5 change a pass started from c measures: old_t5 is read between     *)
(* calculate_t2 and calculate_t5                                            *)
C35_T5Change(c) == RSub(calculate_t5(calculate_t2(c)).T5, calculate_t2(c).T5)

(* the T2 change a pass started from c measures *)
C35_T2Change(c) == RSub(calculate_t5(calculate_t2(c)).T2, c.T2)

(* the state the first pass from c leaves *)
C35_FirstPass(c) == calculate_t5(calculate_t2(c))

(* C35: the refinement loop of every run ends by its second pass: the       *)
(* measured T5 change is 0 in the first and in the second pass, the T2      *)
(* change is 0 in the second, and the loop never makes a third pass         *)
C35_LoopExitsBySecondPass ==
    RunDone =>
        /\ ctrl.passes \in {1, 2}
        /\ C35_T5Change(C35_LoopStart) = R(0)
        /\ C35_T5Change(C35_FirstPass(C35_LoopStart)) = R(0)
        /\ C35_T2Change(C35_FirstPass(C35_LoopStart)) = R(0)

(* a run whose stored T5 moved by 0.01 or more and whose first pass moved   *)
(* T2 by as much, so that a second pass was made and ended the loop         *)
C35_Witness ==
    /\ RunDone
    /\ ctrl.passes = 2
    /\ ~RAbsDiffLt(ctrl.T5, pre.T5, Frac(1, 100))
    /\ ~RAbsDiffLt(C35_T2Change(C35_LoopStart), R(0), Frac(1, 100))


(* x is a positive number *)
C36_Positive(x) == x # Unset /\ RGt(x, R(0))

(* C36: in every state reachable from construction both flows are positive, *)
(* both frequencies are at least 35 and both pump counts at least 1, and    *)
(* the last solve, if one was made, read positive flows and so did not take *)
(* the branch C_fw <= 0 or C_sw <= 0                                        *)
C36_FlowsStayPositive ==
    /\ C36_Positive(ctrl.m_FW) /\ C36_Positive(ctrl.m_SW)
    /\ RGe(ctrl.fw_pump_freq, R(35)) /\ RGe(ctrl.sw_pump_freq, R(35))
    /\ ctrl.fw_pump_count >= 1 /\ ctrl.sw_pump_count >= 1
    /\ ctrl.passes > 0 =>
          /\ C36_Positive(ctrl.solve_m_FW) /\ C36_Positive(ctrl.solve_m_SW)
          /\ C_fw(ctrl)[1] > 0 /\ C_sw(ctrl)[1] > 0

(* a run that solved with positive flows and left the fresh water at the    *)
(* lowest frequency its law commands, 40 Hz, and the flows computed from it *)
C36_Witness ==
    /\ RunDone
    /\ C36_Positive(ctrl.solve_m_FW) /\ C36_Positive(ctrl.solve_m_SW)
    /\ ctrl.fw_pump_freq = R(40)
    /\ ctrl.m_FW = RMul(R(860), R(ctrl.fw_pump_count))


(* the worker thread has left run() through the except clause of line 765 *)
C37_WorkerDied == thr.worker = "raised"

(* C37: an exception raised by update_system inside run() ends the worker:  *)
(* the step that raises leaves running false, and from then on the worker   *)
(* stays where it is, no tick starts, no history is appended and running    *)
(* stays false, while the main thread in its event loop still accepts a     *)
(* manual update                                                            *)
C37_RaiseStopsWorkerOnly ==
    [][/\ C37_WorkerDied' => ~ctrl'.running
       /\ C37_WorkerDied =>
             /\ C37_WorkerDied'
             /\ now' = now
             /\ thr'.current_time = thr.current_time
             /\ ctrl'.time_data = ctrl.time_data
             /\ ctrl'.last_update_time = ctrl.last_update_time
       /\ (/\ C37_WorkerDied
           /\ thr.main = "mainloop"
           /\ thr.manual_updates < MaxStopManual) =>
             ENABLED AutoUpdate_AssignUpTo(MaxStopManual)]_vars

(* the worker died during the first manual update (the only time the        *)
(* sea-water attributes can be half created), and a second manual update    *)
(* was accepted afterwards and ran to its end with the drawn T4 stored      *)
C37_Witness ==
    /\ C37_WorkerDied
    /\ ~thr.stopped
    /\ ~thr.raised
    /\ thr.manual_updates = 2
    /\ thr.main = "mainloop"
    /\ \E in \in RaceInputs : ctrl.T4 = in[1]


(* C38: at most one auto_update callback is scheduled and not yet run,      *)
(* whatever the clicks on the auto-update button                            *)
C38_OneCallbackPending == ui.pending <= 1


(* the controller is in manual-input mode *)
C39_Manual(c) == c.user_input_mode /\ ~c.simulation_mode

(* C39: a step that sets user_input_mode also clears simulation_mode, no    *)
(* step of the window or of the periodic worker leaves manual-input mode    *)
(* again, and a periodic tick made in it leaves T1 and T4 as they are       *)
C39_ModeSwitchIsOneWay ==
    [][/\ (~ctrl.user_input_mode /\ ctrl'.user_input_mode) =>
             C39_Manual(ctrl')
       /\ C39_Manual(ctrl) =>
             /\ C39_Manual(ctrl')
             /\ last' = "update_system" =>
                   ctrl'.T1 = ctrl.T1 /\ ctrl'.T4 = ctrl.T4]_vars

(* manual input was enabled, auto-update was started and stopped again, and *)
(* the periodic tick that followed ran in manual-input mode with T1 and T4  *)
(* as the last auto-update callback drew them                               *)
C39_Witness ==
    /\ C39_Manual(ctrl)
    /\ last = "update_system"
    /\ ~ui.auto_update_active /\ ui.pending > 0
    /\ \E in \in RaceInputs : ctrl.T4 = in[1] /\ ctrl.T1 = in[2]


(* two values a and b, both returned, differ by at most rate *)
C40_Within(a, b, rate) ==
    (a # Unset /\ b # Unset) =>
        /\ RLe(RSub(a, b), rate)
        /\ RLe(RSub(b, a), rate)

(* C40: for a fixed region two successive values of the T1 generator differ *)
(* by at most t1_change_rate and two successive values of the T4 generator  *)
(* by at most t4_change_rate                                                *)
C40_WalkIsGradual ==
    /\ C40_Within(io.t1, io.prev_t1, t1_change_rate)
    /\ C40_Within(io.t4, io.prev_t4, t4_change_rate)

===========================================================================
